---- MODULE Spec2Model ----
(***************************************************************************)
(* Model of the real-time transport core of the PetTracer client           *)
(* (custom_components/pettracer/api.py, class PetTracerApi): the bearer    *)
(* token and its refresh, the REST snapshot that fills the device cache,   *)
(* connect_websocket / disconnect_websocket, and the _websocket_loop task  *)
(* with its SockJS/STOMP handshake and reconnect backoff.                   *)
(*                                                                         *)
(* Every action is one run of a coroutine between two suspension points    *)
(* (await of I/O or of a timer): asyncio runs such a stretch atomically.   *)
(***************************************************************************)
EXTENDS Integers, Sequences, FiniteSets, TLC

\* ---------------------------------------------------------------- bounds
MaxNow == 1          \* the clock runs 0..MaxNow (minutes)
TokenLife == 6       \* minutes between a login and the expiry it returns
MaxTasks == 2        \* _websocket_loop task objects existing at one time
MaxFails == 2        \* connection failures in a row, where the rest is explored
MaxLadder == 8       \* connection failures in a row, where the backoff is explored
MaxConnected == 2    \* CONNECTED frames the server sends on one connection
MaxDeltas == 2       \* MESSAGE frames handled in one behaviour
MaxCallbacks == 3    \* length of self._callbacks

\* ------------------------------------------------------ program constants
InitialDelay == 5          \* reconnect_delay = 5
MaxReconnectDelay == 300   \* max_reconnect_delay = 300
TokenBuffer == 5           \* timedelta(minutes=5)

NoToken == 0               \* self._token is None
NoExpiry == -1             \* self._token_expires is None
NoTask == 0                \* self._ws / self._ws_task is None
PyNone == -1               \* None as a value of a dict
EmptyString == -2          \* "" as a value of a dict

Tasks == 1..MaxTasks
ConnCallers == {"c1", "c2"}    \* coroutines calling connect_websocket
DiscCallers == {"d1"}          \* coroutine calling disconnect_websocket
RestCallers == {"r1"}          \* coroutine calling get_devices
Callers == ConnCallers \cup DiscCallers \cup RestCallers

VARIABLES
  now,             \* datetime.now(), in minutes
  token,           \* self._token
  tokenExpires,    \* self._token_expires
  loginsInFlight,  \* POST /user/login requests awaiting their response
  devices,         \* self._devices: sequence of [key, collar], insertion order
  wsRunning,       \* self._ws_running
  ws,              \* self._ws: the task whose latest socket it references
  wsTask,          \* self._ws_task
  cpc,             \* where each caller is suspended
  clocal,          \* disconnect_websocket's reference to the task it awaits
  tpc,             \* where each _websocket_loop task is suspended
  delay,           \* reconnect_delay of each task
  cancelReq,       \* Task.cancel() was called and not yet delivered
  streak,          \* exceptions of the handler since the loop last reset its delay
  sock,            \* state of the task's latest WebSocket
  wire,            \* the handshake frames received and sent on that WebSocket, in order
  batch,           \* STOMP frames of the current SockJS array still to parse
  callbacks,       \* self._callbacks, in registration order
  calls,           \* the callback invocations made so far, in order
  pending,         \* _update_device_from_websocket tasks created and not yet run
  coord,           \* coordinator.data["collars"]
  published,       \* the async_set_updated_data calls made so far, by device id
  received,        \* the bodies of the MESSAGE frames handled so far, in order
  arrived,         \* the bodies of the MESSAGE frames read from the socket, in order
  seen,            \* the SockJS frames read from the socket, in order (where logged)
  fnIn,            \* the arguments a function is called with
  fnOut,           \* what the call returned or raised
  setup,           \* where async_setup_entry is
  entity           \* the control entities' state and the command in flight

vars == <<now, token, tokenExpires, loginsInFlight, devices,
          wsRunning, ws, wsTask, cpc, clocal,
          tpc, delay, streak, cancelReq, sock, wire, batch,
          callbacks, calls, pending, coord, published, received, arrived,
          seen, fnIn, fnOut, setup, entity>>

hostVars == <<fnIn, fnOut, setup, entity>>
cacheVars == <<callbacks, calls, pending, coord, published, received, arrived>>
deltaVars == <<cacheVars, seen, hostVars>>
\* None of the integration's other parts is running.
HostIdle ==
  /\ seen = <<>>
  /\ fnIn = [fn |-> "none"]
  /\ fnOut = [done |-> FALSE]
  /\ setup = [pc |-> "none"]
  /\ entity = [pc |-> "none"]
authVars == <<token, tokenExpires, loginsInFlight>>
sessVars == <<wsRunning, ws, wsTask>>
taskVars == <<tpc, delay, streak, cancelReq, sock, wire, batch>>

Min(a, b) == IF a < b THEN a ELSE b

\* ------------------------------------------------------------ Python dicts
\* A dict is a function on the set of its keys.
EmptyDict == [k \in {} |-> 0]
Has(d, k) == k \in DOMAIN d                               \* k in d
Get(d, k) == IF k \in DOMAIN d THEN d[k] ELSE PyNone      \* d.get(k)
Put(d, k, v) == [x \in DOMAIN d \cup {k} |-> IF x = k THEN v ELSE d[x]]   \* d[k] = v

\* ------------------------------------------------------- pure functions

\* str(n) for a non-negative int: its decimal digits.
RECURSIVE Str(_)
Str(n) == IF n < 10 THEN <<n>> ELSE Append(Str(n \div 10), n % 10)

\* int(s) for a string of decimal digits.
RECURSIVE IntOf(_)
IntOf(s) == IF Len(s) = 1 THEN s[1]
            ELSE IntOf(SubSeq(s, 1, Len(s) - 1)) * 10 + s[Len(s)]

\* _is_token_valid, on a given token, expiry and clock
TokenValid(tok, exp, clock) ==
  IF tok = NoToken \/ exp = NoExpiry THEN FALSE
  ELSE clock < exp - TokenBuffer

IsTokenValid == TokenValid(token, tokenExpires, now)

\* self._devices[key] = collar on a dict that keeps insertion order
DictSet(d, k, v) ==
  IF \E i \in 1..Len(d) : d[i].key = k
  THEN [i \in 1..Len(d) |-> IF d[i].key = k THEN [key |-> k, collar |-> v] ELSE d[i]]
  ELSE Append(d, [key |-> k, collar |-> v])

\* get_devices: for collar in collars: self._devices[str(collar.get("id"))] = collar
RECURSIVE UpdateCache(_, _)
UpdateCache(d, collars) ==
  IF collars = <<>> THEN d
  ELSE UpdateCache(DictSet(d, Str(Head(collars).id), Head(collars)), Tail(collars))

\* A variant of DeviceIds: only the first cached device is subscribed.
DeviceIdsFirst(d) == IF d = <<>> THEN <<>> ELSE <<IntOf(d[1].key)>>

\* _send_app_subscribe: [int(device_id) for device_id in self._devices.keys()]
DeviceIds(d) == [i \in 1..Len(d) |-> IntOf(d[i].key)]

\* A variant of NextDelay: the doubling without the cap.
NextDelayUncapped(d) == d * 2

\* _websocket_loop: reconnect_delay = min(reconnect_delay * 2, max_reconnect_delay)
NextDelay(d) == Min(d * 2, MaxReconnectDelay)

\* The collar lists GET /map/getccs returns here.
CollarLists == {<<>>, <<[id |-> 12]>>, <<[id |-> 7], [id |-> 12]>>}

\* SockJS frames read by `async for`, by their first character; an array frame
\* carries its STOMP frames (by their command), "abad" is an array frame that
\* is not valid JSON.
Stomp(cmd) == [cmd |-> cmd, data |-> EmptyDict]
Message(data) == [cmd |-> "MESSAGE", data |-> data]     \* data: the JSON body
Batches == {<<>>, <<Stomp("CONNECTED")>>, <<Stomp("ERROR")>>,
            <<Stomp("ERROR"), Stomp("CONNECTED")>>,
            <<Stomp("CONNECTED"), Stomp("CONNECTED")>>}
SockFrames ==
  {[kind |-> k, msgs |-> <<>>] : k \in {"h", "c", "empty", "abad"}}
    \cup {[kind |-> "a", msgs |-> m] : m \in Batches}
\* What recv() can return as the first frame of a connection.
FirstFrames == {"o", "h"}


\* Entries of a connection's transcript.
InFrame(cmd) == [dir |-> "in", cmd |-> cmd, arg |-> <<>>]
OutFrame(cmd, arg) == [dir |-> "out", cmd |-> cmd, arg |-> arg]
\* A variant of SubscribeFrame: the two subscription ids exchanged.
SubscribeFrameSwapped(n) == OutFrame("SUBSCRIBE", <<1 - n>>)
ConnectFrame == OutFrame("CONNECT", <<token>>)        \* _send_stomp_connect
SubscribeFrame(n) == OutFrame("SUBSCRIBE", <<n>>)     \* _send_stomp_subscribe, id sub-n
AppSubscribeFrame(ids) == OutFrame("SEND", ids)       \* _send_app_subscribe

Init ==
  /\ now = 0
  /\ token = NoToken
  /\ tokenExpires = NoExpiry
  /\ loginsInFlight = 0
  /\ devices = <<>>
  /\ wsRunning = FALSE
  /\ ws = NoTask
  /\ wsTask = NoTask
  /\ cpc = [c \in Callers |-> "idle"]
  /\ clocal = [c \in Callers |-> NoTask]
  /\ tpc = [t \in Tasks |-> "unborn"]
  /\ delay = [t \in Tasks |-> InitialDelay]
  /\ streak = [t \in Tasks |-> 0]
  /\ cancelReq = [t \in Tasks |-> FALSE]
  /\ sock = [t \in Tasks |-> "none"]
  /\ wire = [t \in Tasks |-> <<>>]
  /\ batch = [t \in Tasks |-> <<>>]
  /\ callbacks = <<>>
  /\ calls = <<>>
  /\ pending = <<>>
  /\ coord = EmptyDict
  /\ published = <<>>
  /\ received = <<>>
  /\ arrived = <<>>
  /\ HostIdle

\* ------------------------------------------------------------ the clock
Tick ==
  /\ now < MaxNow
  /\ now' = now + 1
  /\ UNCHANGED <<authVars, devices, sessVars, cpc, clocal, taskVars, deltaVars>>

\* ------------------------------------------- _websocket_loop: its pieces
InHandler(t) ==
  tpc[t] \in {"connecting", "recv_open", "reading", "sub0_sent", "sub1_sent", "app_sent"}
Alive(t) == InHandler(t) \/ tpc[t] = "sleeping"

\* The connection of task t received CONNECTED and both SUBSCRIBE frames went out.
Subscribed(t) ==
  /\ \E i \in 1..Len(wire[t]) : wire[t][i] = InFrame("CONNECTED")
  /\ \E i \in 1..Len(wire[t]) : wire[t][i] = SubscribeFrame(1)

\* CONNECTED frames received on the connection of task t so far.
ConnectedSeen(t) ==
  Cardinality({i \in 1..Len(wire[t]) : wire[t][i] = InFrame("CONNECTED")})

CloseIfOpen(s) == IF s = "open" THEN "closed_ok" ELSE s

\* The coroutine of task t is over: its frame and its socket are gone.
Finish(t) ==
  /\ tpc' = [tpc EXCEPT ![t] = "done"]
  /\ delay' = [delay EXCEPT ![t] = InitialDelay]
  /\ streak' = [streak EXCEPT ![t] = 0]
  /\ sock' = [sock EXCEPT ![t] = "none"]
  /\ wire' = [wire EXCEPT ![t] = <<>>]
  /\ batch' = [batch EXCEPT ![t] = <<>>]

\* A variant of LoopTop: `while True:`, the flag is not tested.
LoopTopNoCheck(t, d, k) ==
  /\ tpc' = [tpc EXCEPT ![t] = "connecting"]
  /\ delay' = [delay EXCEPT ![t] = d]
  /\ streak' = [streak EXCEPT ![t] = k]
  /\ sock' = [sock EXCEPT ![t] = "none"]
  /\ wire' = [wire EXCEPT ![t] = <<>>]
  /\ batch' = [batch EXCEPT ![t] = <<>>]

\* `while self._ws_running:` and, when it holds, _websocket_handler up to
\* `websockets.connect`; d and k are the delay and the streak the step leaves.
LoopTop(t, d, k) ==
  IF wsRunning
  THEN /\ tpc' = [tpc EXCEPT ![t] = "connecting"]
       /\ delay' = [delay EXCEPT ![t] = d]
       /\ streak' = [streak EXCEPT ![t] = k]
       /\ sock' = [sock EXCEPT ![t] = "none"]
       /\ wire' = [wire EXCEPT ![t] = <<>>]
       /\ batch' = [batch EXCEPT ![t] = <<>>]
  ELSE Finish(t)

\* A variant of HandlerRaises: the exception ends the loop.
HandlerRaisesBreaks(t) == Finish(t)

\* An exception leaves _websocket_handler: `except Exception` of the loop,
\* which sleeps reconnect_delay seconds when the session is still running.
HandlerRaises(t) ==
  IF wsRunning
  THEN /\ tpc' = [tpc EXCEPT ![t] = "sleeping"]
       /\ streak' = [streak EXCEPT ![t] = Min(@ + 1, MaxLadder)]
       /\ sock' = [sock EXCEPT ![t] = "none"]
       /\ wire' = [wire EXCEPT ![t] = <<>>]
       /\ batch' = [batch EXCEPT ![t] = <<>>]
       /\ UNCHANGED delay
  ELSE Finish(t)

\* _websocket_handler returns: the `else` of the loop sets reconnect_delay = 5,
\* then the loop tests its condition.
HandlerReturns(t) == LoopTop(t, InitialDelay, 0)

\* ------------------------------------- realtime updates and the callbacks
\* What handling a MESSAGE frame reads and writes, as one value.
World == [devices |-> devices, callbacks |-> callbacks, calls |-> calls,
          pending |-> pending, received |-> received]

InCache(d, key) == \E i \in 1..Len(d) : d[i].key = key             \* key in self._devices
CacheGet(d, key) ==                                                \* self._devices.get(key, {})
  IF InCache(d, key) THEN d[CHOOSE i \in 1..Len(d) : d[i].key = key].collar
  ELSE EmptyDict

\* A variant of MergeDelta: only the first of the assignments is made.
MergeDeltaFirstField(dev, data) ==
  IF Has(data, "lastPos")
  THEN Put(dev, "lastPos", [lat |-> Get(data.lastPos, "posLat"),
                            lng |-> Get(data.lastPos, "posLong"),
                            timeDb |-> Get(data.lastPos, "timeDb")])
  ELSE IF Has(data, "lastRssi") THEN Put(dev, "lastRssi", data.lastRssi)
  ELSE IF Has(data, "bat") THEN Put(dev, "bat", data.bat)
  ELSE dev

\* _handle_device_update, the assignments to the cached device: lastPos (as
\* lat, lng, timeDb), lastRssi, bat, fiFo (as fifo), in this order.
MergeDelta(dev, data) ==
  LET a == IF Has(data, "lastPos")
           THEN Put(dev, "lastPos", [lat |-> Get(data.lastPos, "posLat"),
                                     lng |-> Get(data.lastPos, "posLong"),
                                     timeDb |-> Get(data.lastPos, "timeDb")])
           ELSE dev
      b == IF Has(data, "lastRssi") THEN Put(a, "lastRssi", data.lastRssi) ELSE a
      c == IF Has(data, "bat") THEN Put(b, "bat", data.bat) ELSE b
  IN IF Has(data, "fiFo") THEN Put(c, "fifo", data.fiFo) ELSE c

MergeInto(d, key, data) ==
  [i \in 1..Len(d) |->
     IF d[i].key = key THEN [key |-> key, collar |-> MergeDelta(d[i].collar, data)]
     ELSE d[i]]

\* list.remove(x): the first occurrence goes.
RemoveFirst(l, x) ==
  LET i == CHOOSE j \in 1..Len(l) : l[j] = x /\ \A k \in 1..(j - 1) : l[k] # x
  IN SubSeq(l, 1, i - 1) \o SubSeq(l, i + 1, Len(l))

\* unregister_callback
Unregister(l, cb) == IF \E j \in 1..Len(l) : l[j] = cb THEN RemoveFirst(l, cb) ELSE l

\* One callback is called with the event ev. "coord" is the coordinator's
\* _handle_websocket_update, which creates an update task for a device it or
\* the API knows; "once" unregisters itself; "raiser" raises, which
\* _notify_callbacks catches and logs; "plain" returns.
Call(W, cb, ev) ==
  LET W1 == [W EXCEPT !.calls = Append(@, [cb |-> cb, device_id |-> ev.device_id,
                                          n |-> ev.n])]
  IN CASE cb = "coord" ->
            IF Has(coord, ev.device_id) \/ InCache(W.devices, ev.device_id)
            THEN [W1 EXCEPT !.pending = Append(@, ev.device_id)]
            ELSE W1
       [] cb = "once" -> [W1 EXCEPT !.callbacks = Unregister(@, cb)]
       [] OTHER -> W1

\* A variant of NotifyFrom: a callback's exception ends the iteration.
RECURSIVE NotifyUntilRaise(_, _, _)
NotifyUntilRaise(W, i, ev) ==
  IF i > Len(W.callbacks) THEN W
  ELSE IF W.callbacks[i] = "raiser" THEN Call(W, W.callbacks[i], ev)
       ELSE NotifyUntilRaise(Call(W, W.callbacks[i], ev), i + 1, ev)

\* _notify_callbacks: `for callback in self._callbacks`, the list iterator
\* being at index i of the list as it is now.
RECURSIVE NotifyFrom(_, _, _)
NotifyFrom(W, i, ev) ==
  IF i > Len(W.callbacks) THEN W
  ELSE NotifyFrom(Call(W, W.callbacks[i], ev), i + 1, ev)

\* str(data.get("id", "")): the digits of the id, and the empty text for a
\* body without id or with the empty text as its id.
DeviceIdOf(data) ==
  IF Has(data, "id") /\ data.id # EmptyString THEN Str(data.id) ELSE <<>>

\* A variant of HandleDeviceUpdate: callbacks are notified for cached devices only.
HandleKnownDeviceUpdate(W, data) ==
  LET n == Len(W.received) + 1
      W0 == [W EXCEPT !.received = Append(@, data)]
      key == DeviceIdOf(data)
  IN IF key = <<>> THEN W0
     ELSE IF InCache(W0.devices, key)
          THEN NotifyFrom([W0 EXCEPT !.devices = MergeInto(@, key, data)], 1,
                          [device_id |-> key, n |-> n])
          ELSE W0

\* A variant of HandleDeviceUpdate: a device that is not cached is added.
HandleDeviceUpdateAdding(W, data) ==
  LET n == Len(W.received) + 1
      W0 == [W EXCEPT !.received = Append(@, data)]
      key == DeviceIdOf(data)
      W1 == IF InCache(W0.devices, key)
            THEN [W0 EXCEPT !.devices = MergeInto(@, key, data)]
            ELSE [W0 EXCEPT !.devices = Append(@, [key |-> key, collar |-> data])]
  IN IF key = <<>> THEN W0
     ELSE NotifyFrom(W1, 1, [device_id |-> key, n |-> n])

\* A variant of HandleDeviceUpdate: without the return for an empty device id.
HandleDeviceUpdateAnyId(W, data) ==
  LET n == Len(W.received) + 1
      W0 == [W EXCEPT !.received = Append(@, data)]
      key == DeviceIdOf(data)
      W1 == IF InCache(W0.devices, key)
            THEN [W0 EXCEPT !.devices = MergeInto(@, key, data)]
            ELSE W0
  IN NotifyFrom(W1, 1, [device_id |-> key, n |-> n])

\* _handle_device_update on the JSON body data, the n-th body handled: a body
\* whose device id is empty is dropped, a cached device is merged into, and
\* the callbacks are notified for a cached and for an unknown device alike.
HandleDeviceUpdate(W, data) ==
  LET n == Len(W.received) + 1
      W0 == [W EXCEPT !.received = Append(@, data)]
      key == DeviceIdOf(data)
      W1 == IF InCache(W0.devices, key)
            THEN [W0 EXCEPT !.devices = MergeInto(@, key, data)]
            ELSE W0
  IN IF key = <<>> THEN W0
     ELSE NotifyFrom(W1, 1, [device_id |-> key, n |-> n])

\* MESSAGE bodies that cannot be decoded: text that is not JSON, for which
\* json.loads raises JSONDecodeError, and JSON that is not an object, for
\* which data.get raises AttributeError.
Undecodable == {[json |-> "invalid"], [json |-> "array"]}

\* _parse_stomp_frame on a frame that sends nothing: both exceptions of an
\* undecodable body are caught and logged there.
ParseStompFrame(W, f) ==
  IF f.cmd = "MESSAGE" /\ f.data \notin Undecodable
  THEN HandleDeviceUpdate(W, f.data)
  ELSE W

\* A variant of ApplyInert: the frames are handled from the last to the first.
RECURSIVE ApplyInertLastFirst(_, _)
ApplyInertLastFirst(W, b) ==
  IF b = <<>> THEN W
  ELSE IF Head(b).cmd = "CONNECTED" THEN W
       ELSE ParseStompFrame(ApplyInertLastFirst(W, Tail(b)), Head(b))

\* A variant of ApplyInert: an undecodable body ends the handling of the array.
RECURSIVE ApplyInertUntilUndecodable(_, _)
ApplyInertUntilUndecodable(W, b) ==
  IF b = <<>> THEN W
  ELSE IF Head(b).cmd = "CONNECTED" THEN W
       ELSE IF Head(b).cmd = "MESSAGE" /\ Head(b).data \in Undecodable THEN W
            ELSE ApplyInertUntilUndecodable(ParseStompFrame(W, Head(b)), Tail(b))

\* The leading frames of b up to its first CONNECTED, handled in array order.
RECURSIVE ApplyInert(_, _)
ApplyInert(W, b) ==
  IF b = <<>> THEN W
  ELSE IF Head(b).cmd = "CONNECTED" THEN W
       ELSE ApplyInert(ParseStompFrame(W, Head(b)), Tail(b))

\* Every frame of b handled in array order, none of them sending anything.
RECURSIVE ApplyAll(_, _)
ApplyAll(W, b) ==
  IF b = <<>> THEN W ELSE ApplyAll(ParseStompFrame(W, Head(b)), Tail(b))

\* The JSON bodies of the MESSAGE frames of b.
RECURSIVE Bodies(_)
Bodies(b) ==
  IF b = <<>> THEN <<>>
  ELSE IF Head(b).cmd = "MESSAGE" THEN <<Head(b).data>> \o Bodies(Tail(b))
       ELSE Bodies(Tail(b))

\* A variant of DropInert: an ERROR frame is answered like a CONNECTED frame.
RECURSIVE DropInertButError(_)
DropInertButError(b) ==
  IF b = <<>> THEN <<>>
  ELSE IF Head(b).cmd \in {"CONNECTED", "ERROR"} THEN b ELSE DropInertButError(Tail(b))

\* Leading STOMP frames that send nothing (ERROR is logged) are consumed.
RECURSIVE DropInert(_)
DropInert(b) ==
  IF b = <<>> THEN <<>>
  ELSE IF Head(b).cmd = "CONNECTED" THEN b ELSE DropInert(Tail(b))

\* One transcript entry for each CONNECTED frame of b.
RECURSIVE Receipts(_)
Receipts(b) ==
  IF b = <<>> THEN <<>>
  ELSE IF Head(b).cmd = "CONNECTED" THEN <<InFrame("CONNECTED")>> \o Receipts(Tail(b))
       ELSE Receipts(Tail(b))

\* _parse_sockjs_message's for loop over the STOMP frames b, up to its next
\* suspension point: _parse_stomp_frame on each, SUBSCRIBE sub-0 on self._ws at
\* the first CONNECTED.
Dispatch(t, b) ==
  LET r == DropInert(b)
      W == IF ws = NoTask THEN ApplyAll(World, b) ELSE ApplyInert(World, b)
  IN /\ UNCHANGED <<delay, streak, sock, coord, published>>
     /\ devices' = W.devices
     /\ callbacks' = W.callbacks
     /\ calls' = W.calls
     /\ pending' = W.pending
     /\ received' = W.received
     /\ IF r = <<>>
        THEN /\ tpc' = [tpc EXCEPT ![t] = "reading"]
             /\ batch' = [batch EXCEPT ![t] = <<>>]
             /\ UNCHANGED wire
        ELSE IF ws = NoTask                    \* `if self._ws:` fails for each of them
        THEN /\ tpc' = [tpc EXCEPT ![t] = "reading"]
             /\ batch' = [batch EXCEPT ![t] = <<>>]
             /\ wire' = [wire EXCEPT ![t] = @ \o Receipts(r)]
        ELSE IF sock[ws] # "open"              \* send raises, caught by the handler's loop
        THEN /\ tpc' = [tpc EXCEPT ![t] = "reading"]
             /\ batch' = [batch EXCEPT ![t] = <<>>]
             /\ wire' = [wire EXCEPT ![t] = Append(@, InFrame("CONNECTED"))]
        ELSE /\ tpc' = [tpc EXCEPT ![t] = "sub0_sent"]
             /\ batch' = [batch EXCEPT ![t] = Tail(r)]
             /\ wire' = [[wire EXCEPT ![t] = Append(@, InFrame("CONNECTED"))]
                           EXCEPT ![ws] = Append(@, SubscribeFrame(0))]

\* A send on self._ws that fails (None, or a closed socket): the exception is
\* caught by the handler's loop, the rest of the array is dropped.
SendFails(t) ==
  /\ tpc' = [tpc EXCEPT ![t] = "reading"]
  /\ batch' = [batch EXCEPT ![t] = <<>>]
  /\ UNCHANGED wire

CanSend == ws # NoTask /\ sock[ws] = "open"

\* ------------------------------------------ _websocket_loop: the actions
\* A task runs only while no cancellation is pending: Task.cancel() makes the
\* task's next resumption raise CancelledError at the await it is suspended in.
Runs(t, at) == tpc[t] = at /\ ~cancelReq[t]

othersOfTask == <<now, authVars, devices, sessVars, cpc, clocal, cancelReq, deltaVars>>
othersOfReader == <<now, authVars, sessVars, cpc, clocal, cancelReq>>

\* websockets.connect succeeds: `self._ws = websocket`, then `await websocket.recv()`.
ConnectOk(t) ==
  /\ Runs(t, "connecting")
  /\ tpc' = [tpc EXCEPT ![t] = "recv_open"]
  /\ sock' = [sock EXCEPT ![t] = "open"]
  /\ ws' = t
  /\ UNCHANGED <<deltaVars, now, authVars, devices, wsRunning, wsTask, cpc, clocal,
                 cancelReq, delay, streak, wire, batch>>

\* websockets.connect raises (refused, handshake failure, timeout).
ConnectFail(t) ==
  /\ Runs(t, "connecting")
  /\ HandlerRaises(t)
  /\ UNCHANGED othersOfTask

\* The first frame arrives: `o` sends STOMP CONNECT, anything else returns.
RecvOpenFrame(t, f) ==
  /\ Runs(t, "recv_open")
  /\ sock[t] = "open"
  /\ IF f = "o"
     THEN /\ tpc' = [tpc EXCEPT ![t] = "reading"]
          /\ wire' = [wire EXCEPT ![t] = @ \o <<InFrame("o"), ConnectFrame>>]
          /\ UNCHANGED <<delay, streak, sock, batch>>
     ELSE HandlerReturns(t)
  /\ UNCHANGED othersOfTask

\* `async for message in websocket`: one frame, through _parse_sockjs_message.
ReadFrame(t, f) ==
  /\ Runs(t, "reading")
  /\ sock[t] = "open"
  /\ ConnectedSeen(t) + Len(Receipts(f.msgs)) <= MaxConnected
  /\ Len(received) + Len(Bodies(f.msgs)) <= MaxDeltas
  /\ IF f.kind = "a"
     THEN Dispatch(t, f.msgs) /\ arrived' = arrived \o Bodies(f.msgs)
     ELSE UNCHANGED <<tpc, delay, streak, sock, wire, batch, devices, cacheVars>>
  /\ UNCHANGED <<othersOfReader, hostVars>>

\* The same, where the frames read are not logged.
RecvFrame(t, f) == ReadFrame(t, f) /\ UNCHANGED seen

\* _parse_stomp_frame resumes after the first SUBSCRIBE: the second one, on self._ws.
SendSub1(t) ==
  /\ Runs(t, "sub0_sent")
  /\ IF CanSend
     THEN /\ wire' = [wire EXCEPT ![ws] = Append(@, SubscribeFrame(1))]
          /\ tpc' = [tpc EXCEPT ![t] = "sub1_sent"]
          /\ UNCHANGED batch
     ELSE SendFails(t)
  /\ UNCHANGED <<delay, streak, sock>>
  /\ UNCHANGED othersOfTask

\* A variant of SendApp: the SEND goes out also when no device is cached.
SendAppAlways(t) ==
  /\ Runs(t, "sub1_sent")
  /\ IF CanSend
     THEN /\ wire' = [wire EXCEPT ![ws] = Append(@, AppSubscribeFrame(DeviceIds(devices)))]
          /\ tpc' = [tpc EXCEPT ![t] = "app_sent"]
          /\ UNCHANGED batch
     ELSE SendFails(t)
  /\ UNCHANGED <<delay, streak, sock>>
  /\ UNCHANGED othersOfTask

\* _send_app_subscribe(self._ws): the SEND to /app/subscribe, or nothing when
\* no device is cached.
SendApp(t) ==
  /\ Runs(t, "sub1_sent")
  /\ LET ids == DeviceIds(devices)
     IN IF ids = <<>>
        THEN Dispatch(t, batch[t]) /\ UNCHANGED <<arrived, seen, hostVars>>
        ELSE /\ IF CanSend
                THEN /\ wire' = [wire EXCEPT ![ws] = Append(@, AppSubscribeFrame(ids))]
                     /\ tpc' = [tpc EXCEPT ![t] = "app_sent"]
                     /\ UNCHANGED batch
                ELSE SendFails(t)
             /\ UNCHANGED <<delay, streak, sock, devices, deltaVars>>
  /\ UNCHANGED othersOfReader

\* The SEND went out: the for loop goes on with the rest of the array.
AfterApp(t) ==
  /\ Runs(t, "app_sent")
  /\ Dispatch(t, batch[t])
  /\ UNCHANGED <<arrived, seen, hostVars>>
  /\ UNCHANGED othersOfReader

\* The peer or the network ends the connection, cleanly (how = "closed_ok") or
\* not: recv() raises ConnectionClosed, `async for` ends on a clean close and
\* raises on any other; a task suspended in a send meets the closed socket when
\* it resumes.
ServerClose(t, how) ==
  /\ sock[t] = "open"
  /\ ~cancelReq[t]
  /\ \/ /\ tpc[t] = "recv_open"
        /\ HandlerRaises(t)
     \/ /\ tpc[t] = "reading"
        /\ IF how = "closed_ok" THEN HandlerReturns(t) ELSE HandlerRaises(t)
     \/ /\ tpc[t] \in {"sub0_sent", "sub1_sent", "app_sent"}
        /\ sock' = [sock EXCEPT ![t] = how]
        /\ UNCHANGED <<tpc, delay, streak, wire, batch>>
  /\ UNCHANGED othersOfTask

\* The task resumes in recv() or `async for` on a socket closed meanwhile.
SeesClose(t) ==
  /\ sock[t] \in {"closed_ok", "closed_err"}
  /\ \/ /\ Runs(t, "recv_open")
        /\ HandlerRaises(t)
     \/ /\ Runs(t, "reading")
        /\ IF sock[t] = "closed_ok" THEN HandlerReturns(t) ELSE HandlerRaises(t)
  /\ UNCHANGED othersOfTask

\* asyncio.sleep(reconnect_delay) is over: the delay doubles, the loop goes on.
SleepDone(t) ==
  /\ Runs(t, "sleeping")
  /\ LoopTop(t, NextDelay(delay[t]), streak[t])
  /\ UNCHANGED othersOfTask

\* CancelledError is raised in the task: inside the handler the loop's
\* `except asyncio.CancelledError` breaks, inside the sleep it leaves the task.
Cancelled(t) ==
  /\ cancelReq[t]
  /\ Alive(t)
  /\ Finish(t)
  /\ cancelReq' = [cancelReq EXCEPT ![t] = FALSE]
  /\ UNCHANGED <<deltaVars, now, authVars, devices, sessVars, cpc, clocal>>

\* ------------------------------------------- the consumers of the cache
\* get_device_data(device_id, use_cache_only=True) on the cached device dev:
\* the record the entities read (the fields followed here).
GetDeviceData(dev) ==
  LET pos == IF Has(dev, "lastPos") THEN dev.lastPos ELSE EmptyDict
  IN [battery_level |-> Get(dev, "bat"),
      latitude |-> Get(pos, "lat"),
      longitude |-> Get(pos, "lng"),
      last_update |-> Get(pos, "timeDb"),
      rssi_raw |-> IF Has(dev, "lastRssi") THEN dev.lastRssi ELSE 0,
      mode |-> Get(dev, "mode"),
      hw |-> Get(dev, "hw"),
      satellites |-> 0,
      last_position_flags |-> PyNone]

\* get_device_data at the initial load: the latest FIFO entry overrides the
\* signal, the position, the satellites and the position flags.
WithFifo(result, fifo) ==
  [result EXCEPT !.rssi_raw = fifo.rssi,
                 !.latitude = fifo.latitude,
                 !.longitude = fifo.longitude,
                 !.last_update = fifo.timeDb,
                 !.satellites = fifo.sat,
                 !.last_position_flags = fifo.flags]

\* _update_device_from_websocket, the oldest task created and not yet run.
CoordUpdate ==
  /\ pending # <<>>
  /\ coord' = Put(coord, Head(pending), GetDeviceData(CacheGet(devices, Head(pending))))
  /\ published' = Append(published, Head(pending))
  /\ pending' = Tail(pending)
  /\ UNCHANGED <<now, authVars, devices, sessVars, cpc, clocal, taskVars,
                 callbacks, calls, received, arrived, seen, hostVars>>

\* register_callback, called between two frames.
RegisterCallback(cb) ==
  /\ Len(callbacks) < MaxCallbacks
  /\ callbacks' = Append(callbacks, cb)
  /\ UNCHANGED <<now, authVars, devices, sessVars, cpc, clocal, taskVars,
                 calls, pending, coord, published, received, arrived, seen, hostVars>>

\* unregister_callback, called between two frames.
UnregisterCallback(cb) ==
  /\ callbacks' = Unregister(callbacks, cb)
  /\ UNCHANGED <<now, authVars, devices, sessVars, cpc, clocal, taskVars,
                 calls, pending, coord, published, received, arrived, seen, hostVars>>

\* ------------------------------------------------ authenticate and REST
\* The access_token of a login response: the server issues one a minute.
AccessToken(clock) == clock + 1

LoginResponses == {"ok", "ok_noexp", "401", "500", "neterr"}

\* authenticate up to `session.post`: the login request goes out.
IssueLogin(c) ==
  /\ loginsInFlight' = loginsInFlight + 1
  /\ cpc' = [cpc EXCEPT ![c] = "auth"]
  /\ UNCHANGED <<token, tokenExpires, clocal>>

\* Task objects not yet created, or finished and referenced by nobody.
UnbornTasks ==
  {t \in Tasks : /\ tpc[t] \in {"unborn", "done"}
                 /\ wsTask # t /\ ws # t
                 /\ \A d \in DiscCallers : ~(cpc[d] = "joining" /\ clocal[d] = t)}

\* connect_websocket after _ensure_authenticated: the flag, the task, and the
\* task's first run up to `websockets.connect`.
StartLoop ==
  LET t == CHOOSE u \in UnbornTasks : \A v \in UnbornTasks : u <= v
  IN /\ wsRunning' = TRUE
     /\ wsTask' = t
     /\ tpc' = [tpc EXCEPT ![t] = "connecting"]
     /\ UNCHANGED <<ws, delay, streak, cancelReq, sock, wire, batch>>

\* connect_websocket, from the call to its first suspension (or its return).
ConnectWebsocket(c) ==
  /\ cpc[c] = "idle"
  /\ Cardinality(UnbornTasks) > Cardinality({o \in ConnCallers : cpc[o] = "auth"})
  /\ UNCHANGED <<deltaVars, now, devices>>
  /\ IF wsRunning
     THEN UNCHANGED <<authVars, sessVars, cpc, clocal, taskVars>>
     ELSE IF IsTokenValid
     THEN /\ StartLoop
          /\ UNCHANGED <<authVars, cpc, clocal>>
     ELSE /\ IssueLogin(c)
          /\ UNCHANGED <<sessVars, taskVars>>

\* get_devices, from the call to its first suspension.
GetDevices(c) ==
  /\ cpc[c] = "idle"
  /\ IF IsTokenValid
     THEN /\ cpc' = [cpc EXCEPT ![c] = "get"]
          /\ UNCHANGED <<authVars, clocal>>
     ELSE IssueLogin(c)
  /\ UNCHANGED <<deltaVars, now, devices, sessVars, taskVars>>

\* authenticate resumes with the login response r, and its caller goes on.
Authenticate(c, r) ==
  /\ cpc[c] = "auth"
  /\ loginsInFlight' = loginsInFlight - 1
  /\ UNCHANGED <<deltaVars, now, devices, clocal>>
  /\ IF r \in {"ok", "ok_noexp"}
     THEN /\ token' = AccessToken(now)
          /\ tokenExpires' = IF r = "ok" THEN now + TokenLife ELSE tokenExpires
          /\ IF c \in ConnCallers
             THEN /\ StartLoop
                  /\ cpc' = [cpc EXCEPT ![c] = "idle"]
             ELSE /\ cpc' = [cpc EXCEPT ![c] = "get"]
                  /\ UNCHANGED <<sessVars, taskVars>>
     ELSE /\ cpc' = [cpc EXCEPT ![c] = "idle"]     \* PetTracerAuthError / PetTracerApiError
          /\ UNCHANGED <<token, tokenExpires, sessVars, taskVars>>

\* get_cat_collars resumes with status 200 and the list; get_devices fills the cache.
GetOk(c, collars) ==
  /\ cpc[c] = "get"
  /\ devices' = UpdateCache(devices, collars)
  /\ cpc' = [cpc EXCEPT ![c] = "idle"]
  /\ UNCHANGED <<deltaVars, now, authVars, sessVars, clocal, taskVars>>

\* get_cat_collars raises PetTracerApiError.
GetFail(c) ==
  /\ cpc[c] = "get"
  /\ cpc' = [cpc EXCEPT ![c] = "idle"]
  /\ UNCHANGED <<deltaVars, now, authVars, devices, sessVars, clocal, taskVars>>

\* --------------------------------------------------- disconnect_websocket
\* `if self._ws_task:` cancel it and await it, then clear the reference.
CancelAndJoin(d) ==
  IF wsTask = NoTask
  THEN /\ cpc' = [cpc EXCEPT ![d] = "idle"]
       /\ UNCHANGED <<wsTask, cancelReq, clocal>>
  ELSE IF tpc[wsTask] = "done"                 \* awaiting a finished task returns at once
  THEN /\ cpc' = [cpc EXCEPT ![d] = "idle"]
       /\ wsTask' = NoTask
       /\ UNCHANGED <<cancelReq, clocal>>
  ELSE /\ cancelReq' = [cancelReq EXCEPT ![wsTask] = TRUE]
       /\ clocal' = [clocal EXCEPT ![d] = wsTask]
       /\ cpc' = [cpc EXCEPT ![d] = "joining"]
       /\ UNCHANGED wsTask

\* disconnect_websocket, from the call to its first suspension (or its return).
DisconnectWebsocket(d) ==
  /\ cpc[d] = "idle"
  /\ wsRunning' = FALSE
  /\ IF ws # NoTask
     THEN /\ sock' = [sock EXCEPT ![ws] = CloseIfOpen(@)]    \* await self._ws.close()
          /\ cpc' = [cpc EXCEPT ![d] = "closing"]
          /\ UNCHANGED <<ws, wsTask, cancelReq, clocal>>
     ELSE /\ CancelAndJoin(d)
          /\ UNCHANGED <<ws, sock>>
  /\ UNCHANGED <<deltaVars, now, authVars, devices, tpc, delay, streak, wire, batch>>

\* close() returned: `self._ws = None`, then the task is cancelled and awaited.
DisconnectClosed(d) ==
  /\ cpc[d] = "closing"
  /\ ws' = NoTask
  /\ CancelAndJoin(d)
  /\ UNCHANGED <<deltaVars, now, authVars, devices, wsRunning,
                 tpc, delay, streak, sock, wire, batch>>

\* A variant of DisconnectJoined: the reference to the task is kept.
DisconnectJoinedKeepsTask(d) ==
  /\ cpc[d] = "joining"
  /\ tpc[clocal[d]] = "done"
  /\ cpc' = [cpc EXCEPT ![d] = "idle"]
  /\ clocal' = [clocal EXCEPT ![d] = NoTask]
  /\ UNCHANGED <<deltaVars, now, authVars, devices, wsRunning, ws, wsTask, taskVars>>

\* `await self._ws_task` returns: `self._ws_task = None`.
DisconnectJoined(d) ==
  /\ cpc[d] = "joining"
  /\ tpc[clocal[d]] = "done"
  /\ wsTask' = NoTask
  /\ cpc' = [cpc EXCEPT ![d] = "idle"]
  /\ clocal' = [clocal EXCEPT ![d] = NoTask]
  /\ UNCHANGED <<deltaVars, now, authVars, devices, wsRunning, ws, taskVars>>

\* ------------------------------------------------------- specifications
SessionCallers == ConnCallers \cup DiscCallers
SessionApiFree == \A c \in SessionCallers : cpc[c] = "idle"
Controller == "c1"

\* connect_websocket and disconnect_websocket as the integration calls them,
\* from its setup and its unload: one call at a time.
ConnectSerial == SessionApiFree /\ ConnectWebsocket(Controller)
DisconnectSerial(d) == SessionApiFree /\ DisconnectWebsocket(d)

\* What the task does by itself and on what the server sends.
LoopStep(t) ==
  \/ ConnectOk(t)
  \/ \E f \in FirstFrames : RecvOpenFrame(t, f)
  \/ \E f \in SockFrames : RecvFrame(t, f)
  \/ SendSub1(t)
  \/ SendApp(t)
  \/ AfterApp(t)
  \/ SeesClose(t)
  \/ SleepDone(t)
  \/ Cancelled(t)

\* A connection ends: by a failure, at most L times in a row, or cleanly.
NetFail(t, L) ==
  /\ streak[t] < L
  /\ \/ ConnectFail(t)
     \/ ServerClose(t, "closed_err")
     \/ tpc[t] = "recv_open" /\ ServerClose(t, "closed_ok")
NetClose(t) == tpc[t] # "recv_open" /\ ServerClose(t, "closed_ok")

Next ==
  \/ Tick
  \/ ConnectSerial
  \/ \E d \in DiscCallers : DisconnectSerial(d)
  \/ \E d \in DiscCallers : DisconnectClosed(d)
  \/ \E d \in DiscCallers : DisconnectJoined(d)
  \/ \E c \in RestCallers : GetDevices(c)
  \/ \E c \in Callers, r \in LoginResponses : Authenticate(c, r)
  \/ \E c \in RestCallers, l \in CollarLists : GetOk(c, l)
  \/ \E c \in RestCallers : GetFail(c)
  \/ \E t \in Tasks : LoopStep(t)
  \/ \E t \in Tasks : NetFail(t, MaxFails)
  \/ \E t \in Tasks : NetClose(t)

Spec == Init /\ [][Next]_vars

\* The session after setup (authenticated, both collars cached), with its
\* controller, the loop task and a network that fails up to MaxLadder times
\* in a row.
InitReady ==
  /\ now = 0
  /\ token = 1
  /\ tokenExpires = TokenLife
  /\ loginsInFlight = 0
  /\ devices = UpdateCache(<<>>, <<[id |-> 7], [id |-> 12]>>)
  /\ wsRunning = FALSE
  /\ ws = NoTask
  /\ wsTask = NoTask
  /\ cpc = [c \in Callers |-> "idle"]
  /\ clocal = [c \in Callers |-> NoTask]
  /\ tpc = [t \in Tasks |-> "unborn"]
  /\ delay = [t \in Tasks |-> InitialDelay]
  /\ streak = [t \in Tasks |-> 0]
  /\ cancelReq = [t \in Tasks |-> FALSE]
  /\ sock = [t \in Tasks |-> "none"]
  /\ wire = [t \in Tasks |-> <<>>]
  /\ batch = [t \in Tasks |-> <<>>]
  /\ callbacks = <<>>
  /\ calls = <<>>
  /\ pending = <<>>
  /\ coord = EmptyDict
  /\ published = <<>>
  /\ received = <<>>
  /\ arrived = <<>>
  /\ HostIdle

NextBackoff ==
  \/ ConnectSerial
  \/ \E d \in DiscCallers : DisconnectSerial(d)
  \/ \E d \in DiscCallers : DisconnectClosed(d)
  \/ \E d \in DiscCallers : DisconnectJoined(d)
  \/ \E t \in Tasks : LoopStep(t)
  \/ \E t \in Tasks : NetFail(t, MaxLadder)
  \/ \E t \in Tasks : NetClose(t)

BackoffSpec == InitReady /\ [][NextBackoff]_vars

\* The event loop runs every task that can run, and a timer that was set fires.
LiveSpec == BackoffSpec /\ \A t \in Tasks : WF_vars(LoopStep(t))

\* connect_websocket and disconnect_websocket called by several coroutines,
\* also while another such call is suspended; the server sends the open frame
\* and nothing after it.
NextRace ==
  \/ \E c \in ConnCallers : ConnectWebsocket(c)
  \/ \E d \in DiscCallers : DisconnectWebsocket(d)
  \/ \E d \in DiscCallers : DisconnectClosed(d)
  \/ \E d \in DiscCallers : DisconnectJoined(d)
  \/ \E c \in ConnCallers, r \in LoginResponses : Authenticate(c, r)
  \/ \E t \in Tasks : ConnectOk(t)
  \/ \E t \in Tasks, f \in FirstFrames : RecvOpenFrame(t, f)
  \/ \E t \in Tasks : SeesClose(t)
  \/ \E t \in Tasks : SleepDone(t)
  \/ \E t \in Tasks : Cancelled(t)
  \/ \E t \in Tasks : NetFail(t, MaxFails)
  \/ \E t \in Tasks : NetClose(t)

RaceSpec == Init /\ [][NextRace]_vars

\* The JSON bodies the server sends here: battery only, mode only, position
\* with signal and battery, a position with the latitude only, a battery
\* value for a collar that is not cached, and a body without a device id.
Deltas ==
  {[id |-> 7, bat |-> 50],
   [id |-> 7, mode |-> 4],
   [id |-> 7, lastPos |-> [posLat |-> 1, posLong |-> 2, timeDb |-> 3],
    lastRssi |-> 200, bat |-> 60],
   [id |-> 7, lastPos |-> [posLat |-> 9]],
   [id |-> 9, bat |-> 10],
   [bat |-> 5]}
DeltaFrames ==
  {[kind |-> "a", msgs |-> <<Message(d)>>] : d \in Deltas}
    \cup {[kind |-> "a", msgs |-> <<Message(d), Message(e)>>] : d, e \in Deltas}
    \cup {[kind |-> "a", msgs |-> <<Stomp("ERROR"), Message(d)>>] : d \in Deltas}

\* The collars of the REST snapshot and the latest FIFO entry of each.
SnapshotCollars == <<[id |-> 7, bat |-> 40, mode |-> 3, hw |-> 12],
                     [id |-> 12, bat |-> 80, mode |-> 1, hw |-> 12]>>
Fifo == [rssi |-> 180, latitude |-> 11, longitude |-> 22, timeDb |-> 5,
         sat |-> 6, flags |-> 1]
CallbackLists == {<<"coord">>, <<"raiser", "coord">>, <<"coord", "raiser", "plain">>}
SelfRemovingLists == {<<"once", "coord">>, <<"coord", "once">>}

\* The integration after setup with its connection subscribed: snapshot
\* cached and published to the coordinator, callbacks registered as in cbs.
InitSubscribed(cbs) ==
  /\ now = 0
  /\ token = 1
  /\ tokenExpires = TokenLife
  /\ loginsInFlight = 0
  /\ devices = UpdateCache(<<>>, SnapshotCollars)
  /\ wsRunning = TRUE
  /\ ws = 1
  /\ wsTask = 1
  /\ cpc = [c \in Callers |-> "idle"]
  /\ clocal = [c \in Callers |-> NoTask]
  /\ tpc = [t \in Tasks |-> IF t = 1 THEN "reading" ELSE "unborn"]
  /\ delay = [t \in Tasks |-> InitialDelay]
  /\ streak = [t \in Tasks |-> 0]
  /\ cancelReq = [t \in Tasks |-> FALSE]
  /\ sock = [t \in Tasks |-> IF t = 1 THEN "open" ELSE "none"]
  /\ wire = [t \in Tasks |->
               IF t = 1
               THEN <<InFrame("o"), ConnectFrame, InFrame("CONNECTED"),
                      SubscribeFrame(0), SubscribeFrame(1),
                      AppSubscribeFrame(DeviceIds(devices))>>
               ELSE <<>>]
  /\ batch = [t \in Tasks |-> <<>>]
  /\ callbacks \in cbs
  /\ calls = <<>>
  /\ pending = <<>>
  /\ coord = [k \in {devices[i].key : i \in 1..Len(devices)} |->
                WithFifo(GetDeviceData(CacheGet(devices, k)), Fifo)]
  /\ published = <<>>
  /\ received = <<>>
  /\ arrived = <<>>
  /\ HostIdle

\* The subscribed connection receives realtime updates and the coordinator's
\* update tasks run.
Realtime ==
  \/ \E t \in Tasks, f \in DeltaFrames : RecvFrame(t, f)
  \/ CoordUpdate

\* get_devices refreshes the cache from the REST snapshot meanwhile.
Refresh(c) == GetDevices(c) \/ GetOk(c, SnapshotCollars) \/ GetFail(c)
NextDelta == Realtime \/ \E c \in RestCallers : Refresh(c)

\* Callbacks are registered and unregistered between the frames.
NextNotify ==
  \/ Realtime
  \/ RegisterCallback("plain")
  \/ UnregisterCallback("plain")

InitDelta == InitSubscribed(CallbackLists)
DeltaSpec == InitDelta /\ [][NextDelta]_vars

\* The same, with a callback that unregisters itself when called.
InitNotify == InitSubscribed(SelfRemovingLists)
NotifySpec == InitNotify /\ [][NextNotify]_vars

\* --------------------------------------------- frames that carry no update
\* Heartbeats, empty frames, arrays that are not JSON, STOMP ERROR frames and
\* MESSAGE frames with an undecodable body, alone and in an array with an
\* update.
DecodeFrames ==
  LET updates == {Message([id |-> 7, bat |-> 50]), Message([id |-> 9, bat |-> 10]),
                  Message([bat |-> 5]), Message([id |-> EmptyString, bat |-> 5])}
      bad == {Message(d) : d \in Undecodable}
  IN {[kind |-> k, msgs |-> <<>>] : k \in {"h", "empty", "abad"}}
       \cup {[kind |-> "a", msgs |-> m] :
               m \in {<<Stomp("ERROR")>>} \cup {<<u>> : u \in updates \cup bad}
                       \cup {<<Stomp("ERROR"), u>> : u \in updates}
                       \cup {<<x, u>> : x \in bad, u \in updates}
                       \cup {<<u, x>> : x \in bad, u \in updates}}

\* `async for message in websocket`, where `seen` holds the frame read last.
ReadLogged(t, f) ==
  /\ Len(arrived) + Len(Bodies(f.msgs)) <= MaxDeltas
  /\ ReadFrame(t, f)
  /\ seen' = <<f>>

NextDecode ==
  \/ \E t \in Tasks, f \in DecodeFrames : ReadLogged(t, f)
  \/ CoordUpdate
DecodeSpec == InitDelta /\ [][NextDecode]_vars

\* ------------------------------------------------- battery and signal values
MinVoltage == 3000             \* max(3000, ...)
MaxVoltage == 4150             \* min(voltage_mv, 4150)
RawMargin == 40                \* raw battery codes tried beyond the clamp limits
ByteMask == 255                \* 255 & raw_value

Max(a, b) == IF a > b THEN a ELSE b

\* round(n / d) for n >= 0, d > 0: Python rounds a half to the even integer.
RoundHalfEven(n, d) ==
  LET q == n \div d
      r == n % d
  IN IF 2 * r < d THEN q
     ELSE IF 2 * r > d THEN q + 1
     ELSE IF q % 2 = 0 THEN q ELSE q + 1

\* PetTracerBatterySensor.calculate_battery_percentage
CalculateBatteryPercentage(voltage_mv) ==
  LET voltage == Max(MinVoltage, Min(voltage_mv, MaxVoltage))
  IN IF voltage >= 4000 THEN RoundHalfEven((voltage - 4150) * 17 + 83 * 150, 150)
     ELSE IF voltage >= 3900 THEN RoundHalfEven((voltage - 3900) * 26 + 67 * 100, 100)
     ELSE IF voltage >= 3840 THEN RoundHalfEven((voltage - 3840) * 17 + 50 * 60, 60)
     ELSE IF voltage >= 3760 THEN RoundHalfEven((voltage - 3760) * 16 + 34 * 80, 80)
     ELSE IF voltage >= 3600 THEN RoundHalfEven((voltage - 3600) * 17 + 17 * 160, 160)
     ELSE 0

\* A variant of FormatRssi2: the masked value is not halved.
FormatRssi2NotHalved(raw) == 2 * ((raw % (ByteMask + 1)) - 130)

\* format_rssi, in half dBm: twice (255 & raw_value) / 2 - 130.
FormatRssi2(raw) == (raw % (ByteMask + 1)) - 260

\* rssi_to_percent on a value in half dBm. The percentage is
\* 100 * 1.35 * (1 + dbm / 130) = 135 * (260 + dbm2) / 260, clamped to 0..100;
\* where it is exactly half-way (raw 26, 78, 130, 182) the code's double
\* arithmetic gives 13.49.., 40.50.., 67.5 and 94.5 to round().
RssiToPercent(dbm2) ==
  IF dbm2 >= -3 THEN 100
  ELSE LET n == 135 * (260 + dbm2)
       IN IF n <= 0 THEN 0
          ELSE IF n >= 100 * 260 THEN 100
          ELSE IF dbm2 = 26 - 260 THEN 13
          ELSE IF dbm2 = 78 - 260 THEN 41
          ELSE RoundHalfEven(n, 260)

\* Everything a call on given arguments leaves alone.
restOfCall == <<now, authVars, devices, sessVars, cpc, clocal, taskVars,
                cacheVars, seen, fnIn, setup, entity>>

\* PetTracerBatterySensor.native_value
SensorNativeValue ==
  /\ fnIn.fn = "battery"
  /\ ~fnOut.done
  /\ fnOut' = [done |-> TRUE, by |-> "sensor",
               value |-> CalculateBatteryPercentage(fnIn.data.battery_level)]
  /\ UNCHANGED restOfCall

\* PetTracerDeviceTracker.battery_level
TrackerBatteryLevel ==
  /\ fnIn.fn = "battery"
  /\ ~fnOut.done
  /\ fnOut' = [done |-> TRUE, by |-> "tracker", value |-> fnIn.data.battery_level]
  /\ UNCHANGED restOfCall

\* get_device_data's signal part on the raw value: format_rssi, rssi_to_percent.
SignalOf ==
  /\ fnIn.fn = "rssi"
  /\ ~fnOut.done
  /\ fnOut' = [done |-> TRUE, dbm2 |-> FormatRssi2(fnIn.raw),
               percent |-> RssiToPercent(FormatRssi2(fnIn.raw))]
  /\ UNCHANGED restOfCall

\* A call with the arguments in: everything else as after construction.
InitCall(ins) ==
  /\ now = 0
  /\ token = NoToken
  /\ tokenExpires = NoExpiry
  /\ loginsInFlight = 0
  /\ devices = <<>>
  /\ wsRunning = FALSE
  /\ ws = NoTask
  /\ wsTask = NoTask
  /\ cpc = [c \in Callers |-> "idle"]
  /\ clocal = [c \in Callers |-> NoTask]
  /\ tpc = [t \in Tasks |-> "unborn"]
  /\ delay = [t \in Tasks |-> InitialDelay]
  /\ streak = [t \in Tasks |-> 0]
  /\ cancelReq = [t \in Tasks |-> FALSE]
  /\ sock = [t \in Tasks |-> "none"]
  /\ wire = [t \in Tasks |-> <<>>]
  /\ batch = [t \in Tasks |-> <<>>]
  /\ callbacks = <<>>
  /\ calls = <<>>
  /\ pending = <<>>
  /\ coord = EmptyDict
  /\ published = <<>>
  /\ received = <<>>
  /\ arrived = <<>>
  /\ seen = <<>>
  /\ fnIn \in ins
  /\ fnOut = [done |-> FALSE]
  /\ setup = [pc |-> "none"]
  /\ entity = [pc |-> "none"]

\* A collar of coordinator.data["collars"] with a raw battery code, from
\* RawMargin below the lower clamp limit to RawMargin above the upper one.
InitBattery ==
  InitCall({[fn |-> "battery", data |-> [battery_level |-> v]] :
              v \in (MinVoltage - RawMargin)..(MaxVoltage + RawMargin)})
NextBattery == SensorNativeValue \/ TrackerBatteryLevel
BatterySpec == InitBattery /\ [][NextBattery]_vars

InitSignal == InitCall({[fn |-> "rssi", raw |-> r] : r \in 0..ByteMask})
SignalSpec == InitSignal /\ [][SignalOf]_vars

\* ------------------------------------------------------ STOMP frames as text
\* A text is the sequence of its characters, where a run of characters that
\* holds no newline, no blank and no NUL (a command, a header name, a header
\* value, a number) is kept as one element. The commands here are not
\* prefixes of each other, so that startswith tests the first element.
Nul == "NUL"                   \* the character \x00
MaxBody == 3                   \* the longest body tried

\* "\n".join(lines)
RECURSIVE JoinLines(_)
JoinLines(lines) ==
  IF lines = <<>> THEN <<>>
  ELSE IF Len(lines) = 1 THEN lines[1]
       ELSE lines[1] \o <<"\n">> \o JoinLines(Tail(lines))

\* text.split("\n")
RECURSIVE SplitLines(_)
SplitLines(text) ==
  IF \A i \in 1..Len(text) : text[i] # "\n" THEN <<text>>
  ELSE LET i == CHOOSE j \in 1..Len(text) :
                  text[j] = "\n" /\ \A k \in 1..(j - 1) : text[k] # "\n"
       IN <<SubSeq(text, 1, i - 1)>> \o SplitLines(SubSeq(text, i + 1, Len(text)))

\* body.rstrip("\x00")
RECURSIVE RStripNul(_)
RStripNul(text) ==
  IF text # <<>> /\ text[Len(text)] = Nul
  THEN RStripNul(SubSeq(text, 1, Len(text) - 1))
  ELSE text

\* The frame text as _send_app_subscribe builds it: the command, the header
\* lines, content-length with the length of the body, a blank line, the body
\* and NUL.
StompText(cmd, headers, body) ==
  JoinLines(<<<<cmd>>>> \o headers
              \o << <<"content-length", ":", ToString(Len(body))>>, <<>> >>)
    \o <<"\n">> \o body \o <<Nul>>

\* _parse_stomp_frame on the frame text: the kind of frame it takes the text
\* for and, for a MESSAGE, the body it hands to json.loads, which is what
\* follows the first line that is empty after strip(), less the trailing NULs.
ParseStompText(text) ==
  LET lines == SplitLines(text)
      blank == {i \in 1..Len(lines) : \A k \in 1..Len(lines[i]) : lines[i][k] = " "}
      start == (CHOOSE i \in blank : \A j \in blank : i <= j) + 1
  IN IF text = <<>> THEN [frame |-> "none", found |-> FALSE]
     ELSE IF text[1] = "CONNECTED" THEN [frame |-> "CONNECTED", found |-> FALSE]
     ELSE IF text[1] = "MESSAGE"
          THEN IF blank = {} THEN [frame |-> "MESSAGE", found |-> FALSE]
               ELSE [frame |-> "MESSAGE", found |-> TRUE,
                     body |-> RStripNul(JoinLines(SubSeq(lines, start, Len(lines))))]
     ELSE IF text[1] = "ERROR" THEN [frame |-> "ERROR", found |-> FALSE]
     ELSE [frame |-> "ignored", found |-> FALSE]

\* A frame is built from the arguments and parsed.
StompRoundTrip ==
  /\ fnIn.fn = "stomp"
  /\ ~fnOut.done
  /\ fnOut' = [done |-> TRUE, by |-> "parser",
               value |-> ParseStompText(StompText(fnIn.cmd, fnIn.headers, fnIn.body))]
  /\ UNCHANGED restOfCall

\* Every command the protocol has on this connection, with and without the
\* headers of /app/subscribe, and every body of up to MaxBody characters out
\* of a letter, a blank, a newline and NUL.
InitStomp ==
  InitCall({[fn |-> "stomp", cmd |-> c, headers |-> h, body |-> b] :
              c \in {"MESSAGE", "SEND", "ERROR", "CONNECTED"},
              h \in {<<>>, << <<"destination", ":", "/app/subscribe">>,
                              <<"content-type", ":", "application/json">> >>},
              b \in UNION {[1..n -> {"x", " ", "\n", Nul}] : n \in 0..MaxBody}})
StompSpec == InitStomp /\ [][StompRoundTrip]_vars

\* ------------------------------------------------ the first load, per collar
MaxCollars == 2                \* the longest collar list tried

\* A variant of GetDeviceDataFresh: without the try around the FIFO query, so
\* that its failure is raised to the caller.
GetDeviceDataFifoRaising(dev, outcome) ==
  [raised |-> outcome = "failed",
   result |-> IF outcome = "ok" THEN WithFifo(GetDeviceData(dev), Fifo)
              ELSE GetDeviceData(dev)]

\* get_device_data(device_id) on the cached device dev, by the outcome of its
\* get_device_fifo: an answer with a latest entry ("ok"), an answer without
\* entries ("empty"), or an exception ("failed": a status other than 200, a
\* network error, a failed login), which is caught and logged.
GetDeviceDataFresh(dev, outcome) ==
  [raised |-> FALSE,
   result |-> IF outcome = "ok" THEN WithFifo(GetDeviceData(dev), Fifo)
              ELSE GetDeviceData(dev)]

\* get_all_device_data after get_devices filled the cache d: all_data gets the
\* record of every collar whose get_device_data did not raise, under str(id),
\* a later collar of the same id replacing an earlier one.
GetAllDeviceData(d, collars, outcomes) ==
  LET got == [i \in 1..Len(collars) |->
                GetDeviceDataFresh(CacheGet(d, Str(collars[i].id)), outcomes[i])]
      kept == {i \in 1..Len(collars) : ~got[i].raised}
      last(k) == CHOOSE i \in kept :
                   /\ Str(collars[i].id) = k
                   /\ \A j \in kept : Str(collars[j].id) = k => j <= i
  IN [k \in {Str(collars[i].id) : i \in kept} |-> got[last(k)].result]

\* get_all_device_data, on the collars GET /map/getccs returns and the
\* outcome of each collar's FIFO query.
GetAllDeviceDataCall ==
  /\ fnIn.fn = "load"
  /\ ~fnOut.done
  /\ devices' = UpdateCache(devices, fnIn.collars)
  /\ fnOut' = [done |-> TRUE, by |-> "api",
               value |-> GetAllDeviceData(devices', fnIn.collars, fnIn.outcomes)]
  /\ UNCHANGED <<now, authVars, sessVars, cpc, clocal, taskVars,
                 cacheVars, seen, fnIn, setup, entity>>

\* The first load on every list of up to MaxCollars collars with different
\* ids, and every combination of the outcomes of their FIFO queries.
InitLoad ==
  LET collar == {[id |-> i, bat |-> b] : i \in {7, 9, 12}, b \in {40, 80}}
      lists == {l \in UNION {[1..n -> collar] : n \in 0..MaxCollars} :
                  \A i, j \in 1..Len(l) : i # j => l[i].id # l[j].id}
  IN InitCall(UNION {{[fn |-> "load", collars |-> l, outcomes |-> o] :
                        o \in [1..Len(l) -> {"ok", "empty", "failed"}]} : l \in lists})
LoadSpec == InitLoad /\ [][GetAllDeviceDataCall]_vars

\* ------------------------------------------------- the token, call by call
\* self._token_expires: None, or a datetime that is naive or carries an offset.
NoneExpiry == [set |-> FALSE]
Parsed(z, m) == [set |-> TRUE, aware |-> z, at |-> m]

\* The `expires` of a login response: absent, or an ISO-8601 string of the
\* minute m, with or without the suffix Z.
NoExpires == [given |-> FALSE]
IsoString(z, m) == [given |-> TRUE, z |-> z, at |-> m]

\* datetime.fromisoformat(expires_str.replace("Z", "+00:00")): the suffix Z
\* becomes an offset, and the datetime is aware.
FromIsoFormat(str) == Parsed(str.z, str.at)

\* _is_token_valid on a stored token and expiry: datetime.now() is naive, and
\* its comparison with an aware datetime raises TypeError.
IsTokenValidAt(tok, exp, clock) ==
  IF tok = NoToken \/ ~exp.set THEN "False"
  ELSE IF exp.aware THEN "TypeError"
  ELSE IF TokenValid(tok, exp.at, clock) THEN "True" ELSE "False"

\* _ensure_authenticated up to the login request.
EnsureAuthenticated(tok, exp, clock) ==
  LET valid == IsTokenValidAt(tok, exp, clock)
  IN [login |-> valid = "False",
      raised |-> IF valid = "TypeError" THEN "TypeError" ELSE "none"]

\* The outcomes of the login request: no response (aiohttp.ClientError), or a
\* response with a status and, for 200, its JSON body.
NoResponse == [error |-> "ClientError"]
Rejected(status) == [error |-> "none", status |-> status]
Accepted(tok, str) ==
  [error |-> "none", status |-> 200, data |-> [access_token |-> tok, expires |-> str]]

\* A variant of AuthenticateOn: the token of the body, when there is one, is
\* stored before the status is looked at.
AuthenticateStoringFirst(tok, exp, resp) ==
  IF resp.error = "ClientError"
  THEN [token |-> tok, expires |-> exp, result |-> "PetTracerApiError"]
  ELSE IF resp.status = 401
  THEN [token |-> NoToken, expires |-> exp, result |-> "PetTracerAuthError"]
  ELSE IF resp.status # 200
  THEN [token |-> NoToken, expires |-> exp, result |-> "PetTracerApiError"]
  ELSE [token |-> resp.data.access_token,
        expires |-> IF resp.data.expires.given
                    THEN FromIsoFormat(resp.data.expires) ELSE exp,
        result |-> "True"]

\* authenticate on a stored token and expiry, given the outcome of the request:
\* what is stored afterwards, and what the call returns or raises.
AuthenticateOn(tok, exp, resp) ==
  IF resp.error = "ClientError"
  THEN [token |-> tok, expires |-> exp, result |-> "PetTracerApiError"]
  ELSE IF resp.status = 401
  THEN [token |-> tok, expires |-> exp, result |-> "PetTracerAuthError"]
  ELSE IF resp.status # 200
  THEN [token |-> tok, expires |-> exp, result |-> "PetTracerApiError"]
  ELSE [token |-> resp.data.access_token,        \* data.get("access_token")
        expires |-> IF resp.data.expires.given   \* if expires_str:
                    THEN FromIsoFormat(resp.data.expires) ELSE exp,
        result |-> "True"]

\* The responses tried.
Responses ==
  {NoResponse, Rejected(401), Rejected(500), Rejected(204)}
    \cup {Accepted(tok, str) :
            tok \in {NoToken, AccessToken(MaxNow)},
            str \in {NoExpires} \cup {IsoString(z, MaxNow + TokenLife) : z \in BOOLEAN}}

\* The calls tried: on every stored token and expiry, _ensure_authenticated at
\* a clock and authenticate with a response.
AuthIn ==
  LET tokens == {NoToken, AccessToken(0)}
      expiries == {NoneExpiry}
                    \cup {Parsed(z, m) : z \in BOOLEAN, m \in 0..(TokenLife + MaxNow)}
  IN [fn : {"ensure"}, token : tokens, expires : expiries, clock : 0..MaxNow]
       \cup [fn : {"authenticate"}, token : tokens, expires : expiries,
             response : Responses]

\* _ensure_authenticated is called.
EnsureCall ==
  /\ fnIn.fn = "ensure"
  /\ ~fnOut.done
  /\ LET out == EnsureAuthenticated(fnIn.token, fnIn.expires, fnIn.clock)
     IN fnOut' = [done |-> TRUE, by |-> "ensure",
                  login |-> out.login, raised |-> out.raised]
  /\ UNCHANGED restOfCall

\* authenticate is called and the request ends as fnIn.response.
AuthenticateCall ==
  /\ fnIn.fn = "authenticate"
  /\ ~fnOut.done
  /\ LET out == AuthenticateOn(fnIn.token, fnIn.expires, fnIn.response)
     IN fnOut' = [done |-> TRUE, by |-> "authenticate", token |-> out.token,
                  expires |-> out.expires, result |-> out.result]
  /\ UNCHANGED restOfCall

InitAuth == InitCall(AuthIn)
NextAuth == EnsureCall \/ AuthenticateCall
AuthSpec == InitAuth /\ [][NextAuth]_vars

\* --------------------------------------- the switches and the mode selector
\* What set_led_mode, set_buzzer_mode and set_collar_mode give their caller:
\* success, failure, or an error raised.
CommandResults == {"True", "False", "PetTracerApiError"}

\* A variant of AfterCommand: the attribute is set whatever the command gave.
AfterCommandOptimistic(attr, target, result) == target

\* async_turn_on, async_turn_off and async_select_option after their await:
\* `if success:` the attribute becomes the target; an error raised leaves it.
AfterCommand(attr, target, result) == IF result = "True" THEN target ELSE attr

\* The entities of a collar are constructed from its device_data: the
\* switches from led_status and buzzer, the selector from mode.
AddEntities(led, buzzer, mode) ==
  /\ entity.pc = "none"
  /\ entity' = [pc |-> "added", led |-> led, buzzer |-> buzzer, mode |-> mode,
                awaiting |-> [a \in {"led", "buzzer", "mode"} |-> <<>>],
                returned |-> <<>>]
  /\ UNCHANGED <<now, authVars, devices, sessVars, cpc, clocal, taskVars,
                 cacheVars, seen, fnIn, fnOut, setup>>

\* async_turn_on (on) and async_turn_off of a switch, up to the await: the
\* LED command carries 1 or 0, the buzzer command 1 in both.
SwitchTurn(a, on) ==
  /\ entity.pc = "added"
  /\ entity.awaiting[a] = <<>>
  /\ entity' = [entity EXCEPT !.awaiting[a] =
                  <<[arg |-> IF a = "buzzer" \/ on THEN 1 ELSE 0, target |-> on]>>]
  /\ UNCHANGED <<now, authVars, devices, sessVars, cpc, clocal, taskVars,
                 cacheVars, seen, fnIn, fnOut, setup>>

\* async_select_option, up to the await: _MODE_TO_INT.get(option).
SelectOption(option) ==
  /\ entity.pc = "added"
  /\ entity.awaiting.mode = <<>>
  /\ entity' = [entity EXCEPT !.awaiting.mode =
                  <<[arg |-> IF option = "Fast" THEN 1 ELSE 3, target |-> option]>>]
  /\ UNCHANGED <<now, authVars, devices, sessVars, cpc, clocal, taskVars,
                 cacheVars, seen, fnIn, fnOut, setup>>

\* The command of attribute a ends with result, and its handler resumes.
CommandReturns(a, result) ==
  /\ entity.pc = "added"
  /\ entity.awaiting[a] # <<>>
  /\ LET req == entity.awaiting[a][1]
     IN entity' = [entity EXCEPT ![a] = AfterCommand(@, req.target, result),
                                 !.awaiting[a] = <<>>,
                                 !.returned = <<[attr |-> a, arg |-> req.arg,
                                                 target |-> req.target,
                                                 result |-> result]>>]
  /\ UNCHANGED <<now, authVars, devices, sessVars, cpc, clocal, taskVars,
                 cacheVars, seen, fnIn, fnOut, setup>>

NextEntity ==
  \/ \E led, buzzer \in BOOLEAN, mode \in {"Fast", "Slow", "Unknown"} :
       AddEntities(led, buzzer, mode)
  \/ \E a \in {"led", "buzzer"}, on \in BOOLEAN : SwitchTurn(a, on)
  \/ \E option \in {"Fast", "Slow"} : SelectOption(option)
  \/ \E a \in {"led", "buzzer", "mode"}, result \in CommandResults :
       CommandReturns(a, result)
EntitySpec == Init /\ [][NextEntity]_vars

\* ------------------------------------------------------ async_setup_entry
\* A variant of SetupAfter: a step that raised is logged and the setup goes on.
SetupAfterLenient(step, ok) == IF step = "authenticate" THEN "refresh" ELSE "start"

\* async_setup_entry's sequence: api.authenticate(), then the coordinator and
\* its first refresh, then start_websocket; what a step raises ends the setup.
SetupAfter(step, ok) ==
  IF ~ok THEN "failed" ELSE IF step = "authenticate" THEN "refresh" ELSE "start"

\* async_setup_entry is called: api.authenticate(), up to session.post.
SetupEntry ==
  /\ setup.pc = "none"
  /\ setup' = [pc |-> "login", for |-> "authenticate", refreshed |-> FALSE,
               collars |-> <<>>]
  /\ loginsInFlight' = loginsInFlight + 1
  /\ UNCHANGED <<now, token, tokenExpires, devices, sessVars, cpc, clocal, taskVars,
                 cacheVars, seen, fnIn, fnOut, entity>>

\* authenticate resumes with the login response r: called by the setup
\* itself (the coordinator is created next and registers its callback), by
\* _ensure_authenticated for the first refresh, or by it for connect_websocket,
\* whose exceptions start_websocket logs.
SetupLogin(r) ==
  LET ok == r \in {"ok", "ok_noexp"}
  IN /\ setup.pc = "login"
     /\ loginsInFlight' = loginsInFlight - 1
     /\ token' = IF ok THEN AccessToken(now) ELSE token
     /\ tokenExpires' = IF r = "ok" THEN now + TokenLife ELSE tokenExpires
     /\ callbacks' = IF ok /\ setup.for = "authenticate"
                     THEN Append(callbacks, "coord") ELSE callbacks
     /\ IF setup.for = "connect_websocket"
        THEN /\ setup' = [setup EXCEPT !.pc = "done"]
             /\ IF ok THEN StartLoop ELSE UNCHANGED <<sessVars, taskVars>>
        ELSE /\ setup' = [setup EXCEPT !.pc =
                            IF setup.for = "authenticate" THEN SetupAfter(setup.for, ok)
                            ELSE IF ok THEN "get" ELSE SetupAfter(setup.for, FALSE)]
             /\ UNCHANGED <<sessVars, taskVars>>
     /\ UNCHANGED <<now, devices, cpc, clocal, calls, pending, coord, published,
                    received, arrived, seen, fnIn, fnOut, entity>>

\* async_config_entry_first_refresh: get_cat_collars up to its first
\* suspension, the login request or the GET.
SetupRefresh ==
  /\ setup.pc = "refresh"
  /\ IF IsTokenValid
     THEN /\ setup' = [setup EXCEPT !.pc = "get", !.for = "first_refresh"]
          /\ UNCHANGED loginsInFlight
     ELSE /\ setup' = [setup EXCEPT !.pc = "login", !.for = "first_refresh"]
          /\ loginsInFlight' = loginsInFlight + 1
  /\ UNCHANGED <<now, token, tokenExpires, devices, sessVars, cpc, clocal, taskVars,
                 cacheVars, seen, fnIn, fnOut, entity>>

\* The first refresh from the answer to the GET on: get_cat_collars raises
\* (outcome "get"); or get_devices fills the cache and a later request of the
\* refresh raises out of it ("later"); or the refresh ends and its result
\* becomes the coordinator's data ("ok").
SetupSnapshot(collars, outcome) ==
  /\ setup.pc = "get"
  /\ devices' = IF outcome = "get" THEN devices ELSE UpdateCache(devices, collars)
  /\ coord' = IF outcome = "ok"
              THEN [k \in {devices'[i].key : i \in 1..Len(devices')} |->
                      WithFifo(GetDeviceData(CacheGet(devices', k)), Fifo)]
              ELSE coord
  /\ setup' = [setup EXCEPT !.pc = SetupAfter(setup.for, outcome = "ok"),
                            !.refreshed = outcome = "ok",
                            !.collars = IF outcome = "ok" THEN collars ELSE @]
  /\ UNCHANGED <<now, authVars, sessVars, cpc, clocal, taskVars, callbacks, calls,
                 pending, published, received, arrived, seen, fnIn, fnOut, entity>>

\* coordinator.start_websocket: connect_websocket up to its first suspension
\* or its return; the platforms are forwarded after it.
SetupStartWebsocket ==
  /\ setup.pc = "start"
  /\ IF wsRunning
     THEN /\ setup' = [setup EXCEPT !.pc = "done"]
          /\ UNCHANGED <<loginsInFlight, sessVars, taskVars>>
     ELSE IF IsTokenValid
     THEN /\ setup' = [setup EXCEPT !.pc = "done"]
          /\ StartLoop
          /\ UNCHANGED loginsInFlight
     ELSE /\ setup' = [setup EXCEPT !.pc = "login", !.for = "connect_websocket"]
          /\ loginsInFlight' = loginsInFlight + 1
          /\ UNCHANGED <<sessVars, taskVars>>
  /\ UNCHANGED <<now, token, tokenExpires, devices, cpc, clocal, cacheVars, seen,
                 fnIn, fnOut, entity>>

\* The setup, the clock, and the loop task up to its first frames.
NextSetup ==
  \/ SetupEntry
  \/ \E r \in LoginResponses : SetupLogin(r)
  \/ SetupRefresh
  \/ \E l \in CollarLists, outcome \in {"ok", "get", "later"} : SetupSnapshot(l, outcome)
  \/ SetupStartWebsocket
  \/ Tick
  \/ \E t \in Tasks : ConnectOk(t)
  \/ \E t \in Tasks, f \in FirstFrames : RecvOpenFrame(t, f)
  \/ \E t \in Tasks : ConnectFail(t)
SetupSpec == Init /\ [][NextSetup]_vars

\* ----------------------------------------------------------------- claims

\* The waits the backoff prescribes before the 1st, 2nd, ... reconnect attempt
\* of a run of failures.
Ladder == <<5, 10, 20, 40, 80, 160, 300, 300>>
LadderWait(n) == IF n <= Len(Ladder) THEN Ladder[n] ELSE Ladder[Len(Ladder)]

\* C1: while every connection attempt fails with an exception, the wait
\* before the n-th reconnect attempt is 5, 10, 20, 40, 80, 160, 300, 300, ...
\* seconds, and the delay is never below 5 or above 300.
C1_BackoffLadder ==
  \A t \in Tasks :
    /\ delay[t] >= 5 /\ delay[t] <= 300
    /\ tpc[t] = "sleeping" => delay[t] = LadderWait(streak[t])

\* The eighth failure in a row waits 300 seconds, like the seventh.
C1_Witness ==
  \E t \in Tasks : tpc[t] = "sleeping" /\ streak[t] = 8 /\ delay[t] = 300

\* C2: when a connection that received CONNECTED and sent its subscriptions
\* ends, the wait that follows it is 5 seconds, whether it ended by an
\* exception or by a clean close.
C2_ResetAfterSubscribe ==
  [][\A t \in Tasks :
       (Subscribed(t) /\ tpc'[t] = "sleeping") => delay'[t] = InitialDelay]_vars

\* C3: at no time are two login requests in flight.
C3_SingleFlight == loginsInFlight <= 1

\* C4: at the start of a connection attempt the stored token is valid. It is
\* stated here for the reconnect attempts of a session whose token came with
\* an expiry: the claim says it of these and of the first attempt.
C4_ValidTokenAtReconnect ==
  [][\A t \in Tasks :
       (Alive(t) /\ tpc[t] # "connecting" /\ tpc'[t] = "connecting"
          /\ tokenExpires' # NoExpiry)
       => TokenValid(token', tokenExpires', now')]_vars

\* C5: after any interleaving of connect_websocket and disconnect_websocket
\* calls at most one loop task is alive and at most one WebSocket is open.
C5_OneLiveSocket ==
  /\ Cardinality({t \in Tasks : Alive(t)}) <= 1
  /\ Cardinality({t \in Tasks : sock[t] = "open"}) <= 1

\* The session is Disconnected.
Disconnected ==
  /\ ~wsRunning
  /\ ws = NoTask
  /\ wsTask = NoTask
  /\ \A t \in Tasks : ~Alive(t)

\* A step in which a call of disconnect_websocket returns.
DisconnectReturns(d) ==
  /\ DisconnectWebsocket(d) \/ DisconnectClosed(d) \/ DisconnectJoined(d)
  /\ cpc'[d] = "idle"

\* C6: whenever disconnect_websocket returns, the session is Disconnected
\* (flag false, no socket, no task reference, the loop task finished); called
\* on a Disconnected session it changes nothing.
C6_DisconnectEndsDisconnected ==
  [][\A d \in DiscCallers :
       DisconnectReturns(d) =>
         /\ Disconnected'
         /\ Disconnected => UNCHANGED vars]_vars

\* disconnect_websocket has returned on a session whose loop task had run.
C6_Witness ==
  /\ Disconnected
  /\ \A d \in DiscCallers : cpc[d] = "idle"
  /\ \E t \in Tasks : tpc[t] = "done"

\* C7: once disconnect_websocket was called while the loop sleeps between
\* attempts, the sleeping task only ends (it starts no connection attempt,
\* whether the cancellation or the timer comes first), and no task is still
\* asleep when the call returns.
C7_StopCancelsSleep ==
  [][\A t \in Tasks :
       /\ (tpc[t] = "sleeping" /\ ~wsRunning') => tpc'[t] \in {"sleeping", "done"}
       /\ (tpc[t] = "sleeping" /\ cancelReq[t]) => tpc'[t] \in {"sleeping", "done"}
       /\ \A d \in DiscCallers :
            DisconnectReturns(d) => tpc'[t] # "sleeping"]_vars

\* The loop sleeps, the session was stopped and the cancellation is pending.
C7_Witness ==
  \E t \in Tasks : tpc[t] = "sleeping" /\ cancelReq[t] /\ ~wsRunning

\* C8: the loop task exits only after a stop or a cancellation, and while the
\* session is not stopped every attempt that ended in the backoff sleep is
\* followed by another connection attempt.
C8_NeverEndsByItself ==
  /\ [][\A t \in Tasks :
          (Alive(t) /\ tpc'[t] = "done") => (~wsRunning \/ cancelReq[t])]_vars
  /\ \A t \in Tasks :
       (tpc[t] = "sleeping") ~> (tpc[t] = "connecting" \/ ~wsRunning)

\* A reconnect attempt after a failed one, the session running.
C8_Witness ==
  \E t \in Tasks : tpc[t] = "connecting" /\ streak[t] >= 1 /\ wsRunning

\* Some entry before position i of transcript w is f.
Before(w, i, f) == \E j \in 1..(i - 1) : w[j] = f

\* C9: on every connection CONNECT is sent only after `o` was received, every
\* SUBSCRIBE and SEND only after CONNECTED was received, sub-1 directly after
\* sub-0 and the SEND directly after sub-1.
C9_HandshakeOrder ==
  \A t \in Tasks : \A i \in 1..Len(wire[t]) :
    LET e == wire[t][i]
    IN /\ e.cmd = "CONNECT" => Before(wire[t], i, InFrame("o"))
       /\ (e.dir = "out" /\ e.cmd \in {"SUBSCRIBE", "SEND"})
            => Before(wire[t], i, InFrame("CONNECTED"))
       /\ e = OutFrame("SUBSCRIBE", <<0>>)
            => (i > 1 /\ wire[t][i - 1] = InFrame("CONNECTED"))
       /\ e = OutFrame("SUBSCRIBE", <<1>>)
            => (i > 1 /\ wire[t][i - 1] = OutFrame("SUBSCRIBE", <<0>>))
       /\ (e.dir = "out" /\ e.cmd = "SEND")
            => (i > 1 /\ wire[t][i - 1] = OutFrame("SUBSCRIBE", <<1>>))

\* A connection on which the whole handshake went out.
C9_Witness ==
  \E t \in Tasks : \E i \in 1..Len(wire[t]) :
    wire[t][i].dir = "out" /\ wire[t][i].cmd = "SEND"

\* The ids of the cached collars, as the REST snapshot gave them.
CachedIds == [i \in 1..Len(devices) |-> devices[i].collar.id]

\* C10: the SEND to /app/subscribe carries the ids of the collars cached at
\* that moment, all of them and nothing else, and it is sent whenever the
\* cache is not empty.
C10_SubscribesCachedIds ==
  [][\A t \in Tasks :
       /\ (Len(wire'[t]) > Len(wire[t]) /\ wire'[t][Len(wire'[t])].cmd = "SEND")
            => wire'[t][Len(wire'[t])].arg = CachedIds
       /\ (Runs(t, "sub1_sent") /\ tpc'[t] # "sub1_sent" /\ CanSend /\ devices # <<>>)
            => wire'[t] = Append(wire[t], OutFrame("SEND", CachedIds))]_vars

\* A SEND naming the two cached collars went out.
C10_Witness ==
  \E t \in Tasks : \E i \in 1..Len(wire[t]) :
    /\ wire[t][i].cmd = "SEND"
    /\ Len(wire[t][i].arg) = 2

\* C11: with an empty device cache the CONNECTED frame is still answered by
\* SUBSCRIBE sub-0 and sub-1; then no SEND goes out, and the task goes on with
\* the frames of the connection: the socket, the delay and the session are as
\* they were.
C11_EmptyCacheStaysSubscribed ==
  [][\A t \in Tasks :
       /\ (Runs(t, "sub0_sent") /\ CanSend /\ tpc'[t] # "sub0_sent")
            => (tpc'[t] = "sub1_sent"
                  /\ wire'[t] = Append(wire[t], OutFrame("SUBSCRIBE", <<1>>)))
       /\ (Runs(t, "sub1_sent") /\ devices = <<>> /\ tpc'[t] # "sub1_sent")
            => /\ tpc'[t] \in {"reading", "sub0_sent"}
               /\ \A i \in 1..Len(wire'[t]) : wire'[t][i].cmd # "SEND"
               /\ sock'[t] = sock[t] /\ delay'[t] = delay[t]
               /\ streak'[t] = streak[t]]_vars

\* A connection that reads on after the two SUBSCRIBE frames, nothing cached.
C11_Witness ==
  \E t \in Tasks :
    /\ tpc[t] = "reading" /\ sock[t] = "open" /\ devices = <<>>
    /\ Len(wire[t]) > 0
    /\ wire[t][Len(wire[t])] = OutFrame("SUBSCRIBE", <<1>>)

\* C12: a connection whose first frame is not `o` is followed by the backoff
\* wait: the task never goes from awaiting the first frame to a new
\* connection attempt without sleeping.
C12_NonOpenFrameWaits ==
  [][\A t \in Tasks : tpc[t] = "recv_open" => tpc'[t] # "connecting"]_vars


\* ------------------------------------------------- realtime updates: claims
\* The bodies handled by a step, the bodies of ds addressed to the cached key,
\* the bodies of ds that carry the wire key f, and the last element of a list.
NewBodies == SubSeq(received', Len(received) + 1, Len(received'))
For(ds, key) == SelectSeq(ds, LAMBDA d : Has(d, "id") /\ Str(d.id) = key)
CarriersOf(ds, f) == SelectSeq(ds, LAMBDA d : Has(d, f))
LastOf(s) == s[Len(s)]

\* The field of get_device_data's result that shows the wire key f.
ResultField(f) ==
  CASE f = "bat" -> "battery_level"
    [] f = "lastRssi" -> "rssi_raw"
    [] f = "mode" -> "mode"
    [] f = "hw" -> "hw"
WireKeys == {"bat", "lastRssi", "mode", "hw"}

\* C13: after a delta for a cached device was handled, the cached device holds
\* the delta's value for each recognised wire key the delta carries (bat,
\* lastRssi, mode, hw here), and get_device_data(use_cache_only=True) returns it.
C13_PresentFieldsStored ==
  [][\A i \in 1..Len(devices) :
       LET key == devices[i].key
           ds == For(NewBodies, key)
       IN \A f \in WireKeys :
            LET cs == CarriersOf(ds, f)
            IN cs # <<>> =>
                 /\ Get(CacheGet(devices', key), f) = LastOf(cs)[f]
                 /\ GetDeviceData(CacheGet(devices', key))[ResultField(f)] = LastOf(cs)[f]]_vars

\* The key of a delta's lastPos that the cached position component c comes from.
PosSource(c) ==
  CASE c = "lat" -> "posLat"
    [] c = "lng" -> "posLong"
    [] c = "timeDb" -> "timeDb"

\* C14: a step that handles deltas leaves every attribute of a cached device
\* that none of these deltas carries at its previous value, and every component
\* of the cached position that none of their lastPos objects carries.
C14_AbsentFieldsKept ==
  [][received' # received =>
       \A i \in 1..Len(devices) :
         LET key == devices[i].key
             old == devices[i].collar
             new == CacheGet(devices', key)
             ds == For(NewBodies, key)
         IN /\ \A f \in DOMAIN old \ {"lastPos"} :
                 CarriersOf(ds, f) = <<>> => Get(new, f) = old[f]
            /\ Has(old, "lastPos") =>
                 /\ Has(new, "lastPos")
                 /\ \A c \in {"lat", "lng", "timeDb"} :
                      (\A k \in 1..Len(ds) :
                         Has(ds[k], "lastPos") => ~Has(ds[k].lastPos, PosSource(c)))
                        => new.lastPos[c] = old.lastPos[c]]_vars

\* Whether the delta d carries the value shown in the field of the
\* coordinator's record.
Carries(d, field) ==
  CASE field = "battery_level" -> Has(d, "bat")
    [] field = "rssi_raw" -> Has(d, "lastRssi")
    [] field = "latitude" -> Has(d, "lastPos") /\ Has(d.lastPos, "posLat")
    [] field = "longitude" -> Has(d, "lastPos") /\ Has(d.lastPos, "posLong")
    [] field = "last_update" -> Has(d, "lastPos") /\ Has(d.lastPos, "timeDb")
    [] field = "mode" -> Has(d, "mode")
    [] field = "hw" -> Has(d, "hw")
    [] OTHER -> FALSE

\* C15: when the coordinator handles a WebSocket update for a collar, every
\* field of its record of the collar that no delta received for the collar
\* carried equals its value before the update.
C15_ConsumerValuesSurvive ==
  [][published' # published =>
       LET key == Head(pending)
           ds == For(received, key)
       IN \A f \in DOMAIN coord[key] :
            (\A k \in 1..Len(ds) : ~Carries(ds[k], f)) => coord'[key][f] = coord[key][f]]_vars

\* The indices in `received` of the bodies handled by a step, the bodies read
\* from the socket by a step, the callback invocations made by a step, how many
\* of them call cb for device key with the n-th body, and how often x is in l.
NewIndices == (Len(received) + 1)..Len(received')
NewArrivals == SubSeq(arrived', Len(arrived) + 1, Len(arrived'))
NewCalls == SubSeq(calls', Len(calls) + 1, Len(calls'))
CallsOf(cb, key, n) ==
  Cardinality({k \in 1..Len(NewCalls) :
                 NewCalls[k] = [cb |-> cb, device_id |-> key, n |-> n]})
Occurrences(l, x) == Cardinality({k \in 1..Len(l) : l[k] = x})
Elements(l) == {l[k] : k \in 1..Len(l)}

C17_MergeAtomic ==
  [][/\ \A i \in 1..Len(devices) :
          LET ds == For(NewBodies, devices[i].key)
              new == CacheGet(devices', devices[i].key)
          IN ds # <<>> =>
               LET d == LastOf(ds)
               IN /\ Has(d, "lastPos") =>
                       /\ Has(new, "lastPos")
                       /\ new.lastPos = [lat |-> Get(d.lastPos, "posLat"),
                                         lng |-> Get(d.lastPos, "posLong"),
                                         timeDb |-> Get(d.lastPos, "timeDb")]
                  /\ Has(d, "lastRssi") => Get(new, "lastRssi") = d.lastRssi
                  /\ Has(d, "bat") => Get(new, "bat") = d.bat
     /\ published' # published =>
          /\ devices' = devices
          /\ coord'[Head(pending)] = GetDeviceData(CacheGet(devices, Head(pending)))]_vars

\* The delta with position, signal and battery was merged and the coordinator
\* published the record with all three.
C17_Witness ==
  /\ Str(7) \in Elements(published)
  /\ coord[Str(7)].battery_level = 60
  /\ coord[Str(7)].rssi_raw = 200
  /\ coord[Str(7)].latitude = 1

C19_CallbackFailureIsolated ==
  [][\A n \in NewIndices :
       (Has(received'[n], "id") /\ "raiser" \in Elements(callbacks)) =>
         /\ \A j \in 1..Len(callbacks) :
              CallsOf(callbacks[j], Str(received'[n].id), n)
                = Occurrences(callbacks, callbacks[j])
         /\ \A t \in Tasks :
              (tpc[t] = "reading" /\ sock[t] = "open") =>
                /\ tpc'[t] = "reading"
                /\ sock'[t] = "open"
                /\ delay'[t] = delay[t]
                /\ streak'[t] = streak[t]
         /\ wsRunning' = wsRunning /\ ws' = ws /\ wsTask' = wsTask]_vars

\* The raising callback was called and the coordinator's callback after it,
\* for the same body, and the task reads on.
C19_Witness ==
  /\ \E k, m \in 1..Len(calls) :
       /\ k < m
       /\ calls[k].cb = "raiser"
       /\ calls[m].cb = "coord"
       /\ calls[k].n = calls[m].n
  /\ tpc[1] = "reading"
  /\ sock[1] = "open"

\* C20: when a callback unregisters itself while _notify_callbacks iterates,
\* every callback registered when the notify began, other than the one that
\* removed itself, is called exactly once with the event (steps handling one
\* body).
C20_NotifySafeUnderMutation ==
  [][\A n \in NewIndices :
       (Has(received'[n], "id") /\ Len(NewBodies) = 1) =>
         \A j \in 1..Len(callbacks) :
           callbacks[j] # "once" =>
             CallsOf(callbacks[j], Str(received'[n].id), n)
               = Occurrences(callbacks, callbacks[j])]_vars

\* ----------------------------------------------------- derived values: claims
\* C28: the battery sensor's percentage is 0 for a raw value below 3600, 17 at
\* 3600, 34 at 3760, 50 at 3840, 67 at 3900, 83 at 4000 and 100 at 4150 and at
\* every raw value above (clamped to 4150).
C28_BatteryBoundaries ==
  (fnOut.done /\ fnOut.by = "sensor") =>
    LET v == fnIn.data.battery_level
    IN /\ v < 3600 => fnOut.value = 0
       /\ v = 3600 => fnOut.value = 17
       /\ v = 3760 => fnOut.value = 34
       /\ v = 3840 => fnOut.value = 50
       /\ v = 3900 => fnOut.value = 67
       /\ v = 4000 => fnOut.value = 83
       /\ v >= 4150 => fnOut.value = 100

\* C29: the battery level the device tracker exposes for a raw code is the
\* percentage calculate_battery_percentage gives for it, a value in 0..100.
C29_TrackerBatteryIsPercentage ==
  (fnOut.done /\ fnOut.by = "tracker") =>
    /\ fnOut.value = CalculateBatteryPercentage(fnIn.data.battery_level)
    /\ fnOut.value \in 0..100

\* C30 as stated: for every raw byte r the signal is (r & 0xFF)/2 - 130 dBm,
\* non-decreasing in r, and the percentage is 100 exactly when the signal is
\* at least -1.5 dBm.
C30_FullSignalOnlyAtTop ==
  fnOut.done =>
    /\ fnOut.dbm2 = fnIn.raw - 260
    /\ \A r \in 0..fnIn.raw : FormatRssi2(r) <= fnOut.dbm2
    /\ fnOut.percent = 100 <=> fnOut.dbm2 >= -3

\* C30 as amended: for every raw byte r the signal is (r & 0xFF)/2 - 130 dBm,
\* non-decreasing in r, and the percentage is 100 exactly when r >= 192, that
\* is from -34 dBm upwards, and within 0..99 below.
C30_FullSignalFrom192 ==
  fnOut.done =>
    /\ fnOut.dbm2 = fnIn.raw - 260
    /\ \A r \in 0..fnIn.raw : FormatRssi2(r) <= fnOut.dbm2
    /\ fnOut.percent = 100 <=> fnIn.raw >= 192
    /\ fnOut.percent \in 0..100
    /\ fnOut.dbm2 <= -5

\* The raw value 192, -34 dBm, was converted and gives 100 percent.
C30_Witness == fnOut.done /\ fnIn.raw = 192 /\ fnOut.dbm2 = -68 /\ fnOut.percent = 100

\* ------------------------------------------------------- the token: claims

\* C23: _ensure_authenticated issues no login request when a token and an
\* expiry are stored and now < expiry - 5 minutes, and issues one in every
\* other case.
C23_LoginExactlyWhenInvalid ==
  (fnOut.done /\ fnOut.by = "ensure") =>
    LET fresh == /\ fnIn.token # NoToken
                 /\ fnIn.expires.set
                 /\ fnIn.clock < fnIn.expires.at - TokenBuffer
    IN fnOut.login <=> ~fresh

\* C24: after an authenticate() that returns success, the stored token and
\* the stored expiry are those of that login response, and a token is stored.
C24_TokenAndExpiryOfOneResponse ==
  (fnOut.done /\ fnOut.by = "authenticate" /\ fnOut.result = "True") =>
    /\ fnOut.token # NoToken
    /\ fnOut.token = fnIn.response.data.access_token
    /\ fnIn.response.data.expires.given
    /\ fnOut.expires = FromIsoFormat(fnIn.response.data.expires)

Connection == <<wsRunning, ws, wsTask, tpc, sock, delay, streak, cancelReq, wire, batch>>

\* The STOMP frames of f that can be decoded.
DecodableOf(f) ==
  SelectSeq(f.msgs, LAMBDA m : ~(m.cmd = "MESSAGE" /\ m.data \in Undecodable))
CarriesUndecodable(f) == f.kind = "abad" \/ DecodableOf(f) # f.msgs
OnlyInert(f) ==
  \/ f.kind \in {"h", "empty"}
  \/ f.kind = "a" /\ f.msgs # <<>> /\ \A i \in 1..Len(f.msgs) : f.msgs[i].cmd = "ERROR"

\* C21: the read of a SockJS array that is not JSON, or of an array with a
\* MESSAGE whose body is not JSON or not an object, leaves the connection as
\* it is (open, reading, nothing sent, no reconnect), and changes the cache
\* and notifies the callbacks exactly as the other frames of the array do,
\* the ones after the undecodable frame included.
C21_UndecodableDroppedAlone ==
  [][(seen' # seen \/ arrived' # arrived) =>
       LET f == seen'[1]
           W == ApplyAll(World, DecodableOf(f))
       IN CarriesUndecodable(f) =>
            /\ UNCHANGED Connection
            /\ tpc'[ws'] = "reading" /\ sock'[ws'] = "open"
            /\ devices' = W.devices
            /\ calls' = W.calls
            /\ pending' = W.pending
            /\ received' = W.received]_vars

\* An undecodable body arrived first, an update after it, in the array read
\* last or in an earlier frame; the update was merged and notified.
C21_Witness ==
  /\ Len(arrived) = 2
  /\ arrived[1] \in Undecodable
  /\ arrived[2] = [id |-> 7, bat |-> 50]
  /\ received = <<arrived[2]>>
  /\ CacheGet(devices, <<7>>).bat = 50
  /\ calls # <<>>
  /\ sock[ws] = "open" /\ tpc[ws] = "reading"

\* C22: the read of a heartbeat, of an empty frame, or of an array of STOMP
\* ERROR frames leaves the cache and the coordinator's data as they are,
\* calls no callback, sends nothing, and leaves the connection as it is.
C22_InertFrames ==
  [][seen' # seen =>
       (OnlyInert(seen'[1]) =>
          /\ UNCHANGED Connection
          /\ tpc'[ws'] = "reading" /\ sock'[ws'] = "open"
          /\ UNCHANGED <<devices, callbacks, calls, pending, coord, published,
                         received, arrived>>)]_vars

\* A STOMP ERROR frame was read last, after an update had been merged.
C22_Witness ==
  /\ seen = <<[kind |-> "a", msgs |-> <<Stomp("ERROR")>>]>>
  /\ received # <<>>
  /\ sock[ws] = "open" /\ tpc[ws] = "reading"

\* ------------------------------------------------- control entities: claims

\* C26: the state of the LED switch, of the buzzer switch and the option of
\* the mode selector change only in the step in which their command, in
\* flight until then, returns success, and become what was asked for.
C26_NoOptimisticState ==
  [][entity.pc = "added" =>
       \A a \in {"led", "buzzer", "mode"} :
         entity'[a] # entity[a] =>
           /\ entity.awaiting[a] # <<>>
           /\ entity'.awaiting[a] = <<>>
           /\ entity'.returned # <<>>
           /\ entity'.returned[1].attr = a
           /\ entity'.returned[1].result = "True"
           /\ entity'[a] = entity.awaiting[a][1].target]_vars

\* The command to turn the LED on has returned failure, another command is
\* in flight for the buzzer, and both switches are still off.
C26_Witness ==
  /\ entity.pc = "added"
  /\ entity.returned = <<[attr |-> "led", arg |-> 1, target |-> TRUE, result |-> "False"]>>
  /\ ~entity.led
  /\ entity.awaiting.buzzer # <<>> /\ entity.awaiting.buzzer[1].target
  /\ ~entity.buzzer

\* ------------------------------------------------------------ setup: claims
\* The realtime session was started: the flag is set, or a loop task exists.
Started == wsRunning \/ wsTask # NoTask \/ \E t \in Tasks : tpc[t] # "unborn"

\* C27: whenever the realtime session was started, the setup had
\* authenticated (a token is stored) and its first refresh had ended well,
\* cache and coordinator data holding the collars of the REST snapshot; and a
\* setup that failed at the authentication or at the snapshot has started none.
C27_RealtimeAfterSnapshot ==
  /\ Started =>
       /\ setup.pc = "done"
       /\ token # NoToken
       /\ setup.refreshed
       /\ devices = UpdateCache(<<>>, setup.collars)
       /\ DOMAIN coord = {devices[i].key : i \in 1..Len(devices)}
       /\ callbacks = <<"coord">>
  /\ setup.pc \in {"none", "login", "refresh", "get", "start", "failed"} => ~Started

\* The setup is done, the loop task has connected and sent its CONNECT frame,
\* and the cache holds the two collars of the snapshot.
C27_Witness ==
  /\ setup.pc = "done"
  /\ wsTask # NoTask /\ tpc[wsTask] = "reading"
  /\ Len(devices) = 2
  /\ setup.refreshed

\* ------------------------------------------- commands and levels: claims

\* C40: the command async_turn_off of the buzzer switch sends carries 0, as
\* the LED's does, and the one async_turn_on sends carries 1.
C40_BuzzerOffSendsZero ==
  entity.pc = "added" =>
    \A a \in {"led", "buzzer"} :
      entity.awaiting[a] # <<>> =>
        entity.awaiting[a][1].arg = IF entity.awaiting[a][1].target THEN 1 ELSE 0

\* C38: the percentage of a raw battery value is within 0..100 and not below
\* the percentage of any smaller raw value.
C38_BatteryMonotone ==
  (fnOut.done /\ fnOut.by = "sensor") =>
    /\ fnOut.value \in 0..100
    /\ \A a \in (MinVoltage - RawMargin)..fnIn.data.battery_level :
         CalculateBatteryPercentage(a) <= fnOut.value

\* ------------------------------------------------- the loop again: claims

\* C32: a loop task that had a connection or an attempt behind it starts its
\* next attempt only out of the sleep, which lasts at least 5 seconds.
C32_SleepBeforeReconnect ==
  [][\A t \in Tasks :
       (tpc'[t] = "connecting" /\ tpc[t] \notin {"connecting", "unborn", "done"}) =>
         (tpc[t] = "sleeping" /\ delay[t] >= InitialDelay)]_vars

\* C33: when no call of connect_websocket or disconnect_websocket is under
\* way, every loop task that is alive is the one _ws_task references and
\* _ws_running is true; and a call of disconnect_websocket cancels no task
\* created after the call began.
C33_NoOrphanedLoop ==
  /\ SessionApiFree =>
       \A t \in Tasks : Alive(t) => (wsTask = t /\ wsRunning)
  /\ \A d \in DiscCallers, t \in Tasks :
       (cpc[d] = "closing" /\ tpc[t] = "unborn") => ~cancelReq[t]

\* The positions of the transcript of task t's connection at which a frame
\* with the command cmd went out.
Sent(t, cmd) ==
  {i \in 1..Len(wire[t]) : wire[t][i].dir = "out" /\ wire[t][i].cmd = cmd}

\* C34: on one connection each of SUBSCRIBE sub-0 and SUBSCRIBE sub-1 and the
\* SEND to /app/subscribe goes out at most once.
C34_SubscribedOnce ==
  \A t \in Tasks :
    /\ Cardinality(Sent(t, "SEND")) <= 1
    /\ Cardinality(Sent(t, "SUBSCRIBE")) <= 2
    /\ \A i, j \in Sent(t, "SUBSCRIBE") : i # j => wire[t][i] # wire[t][j]

\* ------------------------------------------ the published records: claims
\* The coordinator's callback invocations that created an update task, in the
\* order of their creation, and the cache after exactly the first n bodies
\* were handled, when only realtime updates write it.
TasksCreated ==
  SelectSeq(calls, LAMBDA c : c.cb = "coord" /\ InCache(devices, c.device_id))
CacheAfter(n) ==
  ApplyAll([devices |-> UpdateCache(<<>>, SnapshotCollars), callbacks |-> <<>>,
            calls |-> <<>>, pending |-> <<>>, received |-> <<>>],
           [k \in 1..n |-> Message(received[k])]).devices

C36_CacheKeysFromRest ==
  [i \in 1..Len(devices) |-> devices[i].key]
    = [i \in 1..Len(SnapshotCollars) |-> Str(SnapshotCollars[i].id)]

\* A delta for collar 9, which the snapshot does not hold, and a delta for
\* collar 7 were handled.
C36_Witness ==
  /\ \E n \in 1..Len(received) : Has(received[n], "id") /\ received[n].id = 9
  /\ \E n \in 1..Len(received) : Has(received[n], "id") /\ received[n].id = 7
  /\ Get(CacheGet(devices, Str(7)), "bat") # 40

\* A body without a device id: the key `id` is absent, or its value is the
\* empty text.
NoDeviceId(d) == ~Has(d, "id") \/ d.id = EmptyString

\* C37: a MESSAGE whose body has no device id is notified to no callback and
\* creates no update task, and the read of a frame whose bodies are all
\* without device id leaves the cache, the callbacks, their invocations and
\* the coordinator's data as they are.
C37_NoIdNoEffect ==
  [][/\ \A n \in NewIndices :
          NoDeviceId(received'[n]) => \A k \in 1..Len(NewCalls) : NewCalls[k].n # n
     /\ (NewIndices # {} /\ \A n \in NewIndices : NoDeviceId(received'[n])) =>
          UNCHANGED <<devices, callbacks, calls, pending, coord, published>>]_vars

\* A body with the empty text as its id was handled after an update that was
\* merged and notified; only the update was notified.
C37_Witness ==
  /\ Len(received) = 2
  /\ received[1] = [id |-> 7, bat |-> 50]
  /\ received[2] = [id |-> EmptyString, bat |-> 5]
  /\ \A k \in 1..Len(calls) : calls[k].n = 1
  /\ calls # <<>>
  /\ CacheGet(devices, Str(7)).bat = 50

\* ------------------------------------------------------ STOMP frames: claims
\* C31: the text of a frame built from a command, headers and a body is
\* parsed back to the same command and to exactly the same body.
C31_StompRoundTrip ==
  fnOut.done =>
    /\ fnOut.value.frame = fnIn.cmd
    /\ fnOut.value.found
    /\ fnOut.value.body = fnIn.body

\* ---------------------------------------------------- the first load: claims
\* C39: whatever the FIFO queries do, get_all_device_data returns one record
\* for every collar of the snapshot, and the record of a collar whose FIFO
\* query failed is the one built from the cached snapshot alone.
C39_FifoFailureKeepsDevice ==
  (fnOut.done /\ fnOut.by = "api") =>
    /\ DOMAIN fnOut.value = {Str(fnIn.collars[i].id) : i \in 1..Len(fnIn.collars)}
    /\ \A i \in 1..Len(fnIn.collars) :
         LET record == fnOut.value[Str(fnIn.collars[i].id)]
         IN /\ record.battery_level = fnIn.collars[i].bat
            /\ fnIn.outcomes[i] = "failed" => record = GetDeviceData(fnIn.collars[i])

\* Two collars were loaded; the FIFO query of the first failed, the one of
\* the second did not, and both have their record.
C39_Witness ==
  /\ fnOut.done /\ fnOut.by = "api"
  /\ Len(fnIn.collars) = 2
  /\ fnIn.outcomes = <<"failed", "ok">>
  /\ fnOut.value[Str(fnIn.collars[1].id)].satellites = 0
  /\ fnOut.value[Str(fnIn.collars[2].id)].satellites = Fifo.sat

====
